---- MODULE Spec2Model ----
(***************************************************************************)
(* GeoWear: wear analysis of acetabular cup scans.                         *)
(*                                                                         *)
(* The model covers the analysis pipeline (WearAnalysisPipeline), the      *)
(* adjacency graph (MeshGraph), the geometric stages it calls and the App  *)
(* orchestrator that drives it from UI events.                             *)
(*                                                                         *)
(* Numbers.  Mesh coordinates are integers in units of 0.1 mm; lengths and *)
(* deviations are integers in micrometres (1 unit = 100 um); direction     *)
(* vectors are integers in thousandths.  Progress fractions and the trim   *)
(* index are IEEE-754 doubles, modelled bit-exactly (section "Doubles").   *)
(* A Float32Array element read past the end of the array is NaN; a vertex  *)
(* whose coordinates are NaN is the empty tuple NaNVec.                    *)
(***************************************************************************)
EXTENDS Integers, Sequences, FiniteSets, TLC

(***************************************************************************)
(* Bounds of the model                                                     *)
(***************************************************************************)
\* largest vertexCount handed to MeshGraph.build in SpecGraph
MaxV == 3
\* most triangles in an index buffer handed to MeshGraph.build in SpecGraph
MaxF == 2

(***************************************************************************)
(* Integer helpers                                                         *)
(***************************************************************************)
\* a nullable field: Null, or Some(v) holding v
Null == <<>>

Some(v) == <<v>>

Val(o) == o[1]

Abs(x) == IF x < 0 THEN -x ELSE x

Min2(a, b) == IF a <= b THEN a ELSE b

Max2(a, b) == IF a >= b THEN a ELSE b

\* value, evaluated once, handed to F
Bind(value, F(_)) == CHOOSE r \in {F(v) : v \in {value}} : TRUE

\* floor of the square root, by bisection on [lo, hi)
RECURSIVE ISqrtIn(_, _, _)
ISqrtIn(n, lo, hi) ==
  IF hi - lo <= 1 THEN lo
  ELSE LET mid == (lo + hi) \div 2
       IN  IF mid * mid <= n THEN ISqrtIn(n, mid, hi) ELSE ISqrtIn(n, lo, mid)

ISqrt(n) == IF n <= 0 THEN 0 ELSE ISqrtIn(n, 0, Min2(n + 1, 46341))

\* division rounded to nearest, halves away from zero
RDiv(a, b) ==
  LET s == IF (a < 0) = (b < 0) THEN 1 ELSE -1
  IN  s * ((2 * Abs(a) + Abs(b)) \div (2 * Abs(b)))

\* sum and fold over sequences of integers
RECURSIVE SumSeq(_)
SumSeq(s) == IF s = <<>> THEN 0 ELSE Head(s) + SumSeq(Tail(s))

SeqToSet(s) == {s[i] : i \in 1..Len(s)}

\* the elements of s that satisfy a membership set, in order
FilterIn(s, keep) == SelectSeq(s, LAMBDA x : x \in keep)

\* a Set that kept repeated elements
SetAddKeepsDuplicates(s, x) == Append(s, x)

\* x appended to s unless already there (a JavaScript Set keeps insertion order)
SetAdd(s, x) == IF x \in SeqToSet(s) THEN s ELSE Append(s, x)

(***************************************************************************)
(* Vectors                                                                 *)
(***************************************************************************)
NaNVec == <<>>

IsNaNVec(v) == v = NaNVec

VSub(a, b) == <<a[1] - b[1], a[2] - b[2], a[3] - b[3]>>

VAdd(a, b) == <<a[1] + b[1], a[2] + b[2], a[3] + b[3]>>

VDot(a, b) == a[1] * b[1] + a[2] * b[2] + a[3] * b[3]

VCross(a, b) ==
  <<a[2] * b[3] - a[3] * b[2], a[3] * b[1] - a[1] * b[3], a[1] * b[2] - a[2] * b[1]>>

\* length of a vector of units, in micrometres
LenUm(v) == ISqrt(10000 * VDot(v, v))

\* positions[i*3 .. i*3+2] of a Float32Array: NaN past the end
PosAt(positions, i) == IF i + 1 \in DOMAIN positions THEN positions[i + 1] ELSE NaNVec

(***************************************************************************)
(* MeshGraph                                                               *)
(***************************************************************************)
TypeErrorMsg == "TypeError: Cannot read properties of undefined (reading 'add')"

\* the three corners of face f (0-based) of a flat index buffer
FaceOf(indices, f) == <<indices[3 * f + 1], indices[3 * f + 2], indices[3 * f + 3]>>

\* pass 1, one face: the six Set.add calls on neighborSets[i0], [i1], [i2]
AddFace(ns, tri) ==
  LET a == [ns EXCEPT ![tri[1] + 1] = SetAdd(SetAdd(@, tri[2]), tri[3])]
      b == [a EXCEPT ![tri[2] + 1] = SetAdd(SetAdd(@, tri[1]), tri[3])]
  IN  [b EXCEPT ![tri[3] + 1] = SetAdd(SetAdd(@, tri[1]), tri[2])]

\* neighborSets[i] is undefined for a corner i >= vertexCount: .add throws
FaceThrows(tri, vertexCount) == \E k \in 1..3 : tri[k] >= vertexCount

\* pass 1 over the faces from f on; ok = FALSE once a face throws
RECURSIVE NeighborSets(_, _, _, _)
NeighborSets(indices, vertexCount, f, ns) ==
  IF f >= Len(indices) \div 3 THEN [ok |-> TRUE, sets |-> ns]
  ELSE IF FaceThrows(FaceOf(indices, f), vertexCount) THEN [ok |-> FALSE, sets |-> ns]
  ELSE NeighborSets(indices, vertexCount, f + 1, AddFace(ns, FaceOf(indices, f)))

\* offsets[i] = number of neighbours of the vertices before i
RECURSIVE Offsets(_, _)
Offsets(ns, i) ==
  IF i = 0 THEN <<0>>
  ELSE LET prev == Offsets(ns, i - 1)
       IN  Append(prev, prev[i] + Len(ns[i]))

RECURSIVE Flatten(_)
Flatten(ss) == IF ss = <<>> THEN <<>> ELSE Head(ss) \o Flatten(Tail(ss))

\* weights[idx] = Math.sqrt(dx*dx + dy*dy + dz*dz)
EdgeWeight(positions, i, j) == LenUm(VSub(PosAt(positions, j), PosAt(positions, i)))

\* the flat weights array: one entry per neighbour, in neighbour order
RECURSIVE WeightsFrom(_, _, _)
WeightsFrom(positions, ns, i) ==
  IF i > Len(ns) THEN <<>>
  ELSE [k \in 1..Len(ns[i]) |-> EdgeWeight(positions, i - 1, ns[i][k])]
         \o WeightsFrom(positions, ns, i + 1)

\* MeshGraph.build: the graph, or the TypeError of a Set.add on undefined
MeshGraphBuild(positions, indices, vertexCount) ==
  LET r  == NeighborSets(indices, vertexCount, 0, [i \in 1..vertexCount |-> <<>>])
      ns == r.sets
  IN  IF ~r.ok THEN [ok |-> FALSE, error |-> TypeErrorMsg]
      ELSE [ok    |-> TRUE,
            graph |-> [vertexCount |-> vertexCount,
                       offsets     |-> Offsets(ns, vertexCount),
                       neighbors   |-> Flatten(ns),
                       weights     |-> WeightsFrom(positions, ns, 1)]]

\* MeshGraph.getNeighbors
GetNeighbors(g, vertex) ==
  [k \in 1..(g.offsets[vertex + 2] - g.offsets[vertex + 1]) |->
     [neighbor |-> g.neighbors[g.offsets[vertex + 1] + k],
      weight   |-> g.weights[g.offsets[vertex + 1] + k]]]

(***************************************************************************)
(* Doubles                                                                 *)
(*                                                                         *)
(* A non-negative IEEE-754 double is [m, e] with value m * 2^e, where m is *)
(* 0 or has exactly 53 bits.  m is a natural number kept as a sequence of  *)
(* 13-bit limbs, least significant first, without leading zero limbs.      *)
(* Every operation computes the exact result and rounds it to nearest,     *)
(* ties to even, as the hardware does.  (No value here leaves the normal   *)
(* range, so subnormals and infinities are not modelled.)                  *)
(***************************************************************************)
LimbBase == 8192

Pow2(k) == IF k = 0 THEN 1 ELSE 2 * [i \in 0..12 |-> 2^i][k - 1]

\* drop the leading (most significant) zero limbs
RECURSIVE BNorm(_)
BNorm(a) == IF a # <<>> /\ a[Len(a)] = 0 THEN BNorm(SubSeq(a, 1, Len(a) - 1)) ELSE a

\* bring every limb below the base, carrying upwards
RECURSIVE BCarry(_, _)
BCarry(a, carry) ==
  IF a = <<>> THEN (IF carry = 0 THEN <<>> ELSE BCarry(<<carry>>, 0))
  ELSE <<(Head(a) + carry) % LimbBase>> \o BCarry(Tail(a), (Head(a) + carry) \div LimbBase)

BLimb(a, i) == IF i \in DOMAIN a THEN a[i] ELSE 0

BFromInt(n) == BNorm(BCarry(<<n>>, 0))

BAdd(a, b) == BNorm(BCarry([i \in 1..Max2(Len(a), Len(b)) |-> BLimb(a, i) + BLimb(b, i)], 0))

\* schoolbook product, one column at a time (at most 6 partial products a column)
BMul(a, b) ==
  IF a = <<>> \/ b = <<>> THEN <<>>
  ELSE BNorm(BCarry([k \in 1..(Len(a) + Len(b) - 1) |->
               SumSeq([i \in 1..Len(a) |-> a[i] * BLimb(b, k + 1 - i)])], 0))

\* -1, 0, 1 as a < b, a = b, a > b
RECURSIVE BCmp(_, _)
BCmp(a, b) ==
  IF Len(a) # Len(b) THEN (IF Len(a) < Len(b) THEN -1 ELSE 1)
  ELSE IF a = <<>> THEN 0
  ELSE IF a[Len(a)] # b[Len(b)] THEN (IF a[Len(a)] < b[Len(b)] THEN -1 ELSE 1)
  ELSE BCmp(SubSeq(a, 1, Len(a) - 1), SubSeq(b, 1, Len(b) - 1))

\* number of bits of a limb, and of a number
LimbBits(x) == IF x = 0 THEN 0 ELSE CHOOSE k \in 1..13 : Pow2(k - 1) <= x /\ x < Pow2(k)

BBitLen(a) == IF a = <<>> THEN 0 ELSE 13 * (Len(a) - 1) + LimbBits(a[Len(a)])

\* a * 2^k
BShl(a, k) ==
  IF a = <<>> THEN <<>>
  ELSE [i \in 1..(k \div 13) |-> 0] \o BNorm(BCarry([i \in 1..Len(a) |-> a[i] * Pow2(k % 13)], 0))

\* floor(a / 2^k)
BShr(a, k) ==
  LET w == k \div 13
      r == k % 13
  IN  IF Len(a) <= w THEN <<>>
      ELSE BNorm([i \in 1..(Len(a) - w) |->
             a[i + w] \div Pow2(r) + (BLimb(a, i + w + 1) % Pow2(r)) * Pow2(13 - r)])

\* a mod 2^k
BLow(a, k) ==
  BNorm([i \in 1..Min2(Len(a), k \div 13 + 1) |->
           IF i <= k \div 13 THEN a[i] ELSE a[i] % Pow2(k % 13)])

BIsOdd(a) == a # <<>> /\ a[1] % 2 = 1

\* floor(a / d) and whether a remainder is left, for a small divisor d
RECURSIVE BDivSmall(_, _, _)
BDivSmall(a, d, rem) ==
  IF a = <<>> THEN [q |-> <<>>, rem |-> rem]
  ELSE LET cur  == rem * LimbBase + a[Len(a)]
           rest == BDivSmall(SubSeq(a, 1, Len(a) - 1), d, cur % d)
       IN  [q |-> Append(rest.q, cur \div d), rem |-> rest.rem]

\* the double nearest to m * 2^e, ties to even
DRound(m, e) ==
  LET l == BBitLen(m)
  IN  IF l = 0 THEN [m |-> <<>>, e |-> 0]
      ELSE IF l <= 53 THEN [m |-> BShl(m, 53 - l), e |-> e - (53 - l)]
      ELSE LET k    == l - 53
               q    == BShr(m, k)
               c    == BCmp(BLow(m, k), BShl(<<1>>, k - 1))
               up   == c > 0 \/ (c = 0 /\ BIsOdd(q))
               q1   == IF up THEN BAdd(q, <<1>>) ELSE q
           IN  IF BBitLen(q1) = 54 THEN [m |-> BShr(q1, 1), e |-> e + k + 1]
               ELSE [m |-> q1, e |-> e + k]

DZero == [m |-> <<>>, e |-> 0]

\* an integer as a double
DInt(n) == DRound(BFromInt(n), 0)

\* a / b for integers 0 <= a, 0 < b < 8192: also the value of the literal a/b
DRatio(a, b) ==
  LET d == BDivSmall(BShl(BFromInt(a), 78), b, 0)
  IN  DRound(BAdd(BShl(BNorm(d.q), 1), IF d.rem = 0 THEN <<>> ELSE <<1>>), -79)

DMul(x, y) == DRound(BMul(x.m, y.m), x.e + y.e)

\* both mantissas over the smaller exponent
DAligned(x, y) ==
  LET e == Min2(x.e, y.e)
  IN  [a |-> BShl(x.m, x.e - e), b |-> BShl(y.m, y.e - e), e |-> e]

DAdd(x, y) ==
  IF x.m = <<>> THEN y ELSE IF y.m = <<>> THEN x
  ELSE DRound(BAdd(DAligned(x, y).a, DAligned(x, y).b), DAligned(x, y).e)

\* x <= y
DLeq(x, y) ==
  IF x.m = <<>> THEN TRUE ELSE IF y.m = <<>> THEN FALSE
  ELSE BCmp(DAligned(x, y).a, DAligned(x, y).b) <= 0

\* a small natural number held in limbs
BToInt(a) == BLimb(a, 1) + LimbBase * BLimb(a, 2)

\* Math.ceil of a double, for results below 2^26
DCeil(x) ==
  IF x.m = <<>> THEN 0
  ELSE IF x.e >= 0 THEN BToInt(BShl(x.m, x.e))
  ELSE BToInt(BShr(x.m, -x.e)) + (IF BLow(x.m, -x.e) = <<>> THEN 0 ELSE 1)

(***************************************************************************)
(* Exact linear algebra: integers of any size with a sign, determinants,   *)
(* and the solution of a 4x4 system by Cramer's rule                       *)
(***************************************************************************)
\* a - b for limb numbers a >= b
BSub(a, b) == BNorm(BCarry([i \in 1..Len(a) |-> a[i] - BLimb(b, i)], 0))

SInt(n) == [neg |-> n < 0, m |-> BFromInt(Abs(n))]

SNeg(a) == [neg |-> ~a.neg /\ a.m # <<>>, m |-> a.m]

SAdd(a, b) ==
  IF a.neg = b.neg THEN [neg |-> a.neg, m |-> BAdd(a.m, b.m)]
  ELSE IF BCmp(a.m, b.m) = 0 THEN [neg |-> FALSE, m |-> <<>>]
  ELSE IF BCmp(a.m, b.m) > 0 THEN [neg |-> a.neg, m |-> BSub(a.m, b.m)]
  ELSE [neg |-> b.neg, m |-> BSub(b.m, a.m)]

SMul(a, b) ==
  [neg |-> a.neg # b.neg /\ a.m # <<>> /\ b.m # <<>>, m |-> BMul(a.m, b.m)]

RECURSIVE SSum(_)
SSum(s) == IF s = <<>> THEN SInt(0) ELSE SAdd(Head(s), SSum(Tail(s)))

\* the matrix m without its first row and its column j
Minor(m, j) ==
  [r \in 1..(Len(m) - 1) |-> [c \in 1..(Len(m) - 1) |-> m[r + 1][IF c < j THEN c ELSE c + 1]]]

\* determinant of a square matrix of integers, expanded along the first row
RECURSIVE Det(_)
Det(m) ==
  IF Len(m) = 1 THEN SInt(m[1][1])
  ELSE SSum([j \in 1..Len(m) |->
         IF m[1][j] = 0 THEN SInt(0)
         ELSE SMul(SInt(IF j % 2 = 1 THEN m[1][j] ELSE -m[1][j]), Det(Minor(m, j)))])

\* the largest k in lo..hi with k * d <= n, for limb numbers n and d > 0
RECURSIVE BQuot(_, _, _, _)
BQuot(n, d, lo, hi) ==
  IF lo >= hi THEN lo
  ELSE LET mid == (lo + hi + 1) \div 2
       IN  IF BCmp(BMul(d, BFromInt(mid)), n) <= 0 THEN BQuot(n, d, mid, hi)
           ELSE BQuot(n, d, lo, mid - 1)

QuotMax == 1073741823

\* scale * num / den rounded to the nearest integer, for signed num and den # 0
SRatio(num, den, scale) ==
  LET mag == BQuot(BAdd(BShl(BMul(num.m, BFromInt(scale)), 1), den.m), BShl(den.m, 1), 0, QuotMax)
  IN  IF num.neg = den.neg THEN mag ELSE -mag

\* the matrix m with column j replaced by the vector b
WithColumn(m, j, b) ==
  [r \in 1..Len(m) |-> [c \in 1..Len(m) |-> IF c = j THEN b[r] ELSE m[r][c]]]

\* solve(AtA, AtB): singular iff the determinant is zero; otherwise the
\* unknowns as exact ratios det_j / det
Solve(AtA, AtB) ==
  LET det == Det(AtA)
  IN  IF det.m = <<>> THEN [singular |-> TRUE]
      ELSE [singular |-> FALSE, det |-> det,
            num |-> [j \in 1..Len(AtA) |-> Det(WithColumn(AtA, j, AtB))]]

(***************************************************************************)
(* MeshProcessor: separateFaces, buildMeshFromFaces, computeCupAxis        *)
(*                                                                         *)
(* A mesh is [positions, indices, vertexCount, faceCount].  The normals    *)
(* array is copied next to the positions and read by no analysis stage; it *)
(* is left out.  A centroid sum/n is kept as the pair [sum, n] so that no  *)
(* fraction is rounded: vertex p lies at (n*p - sum)/n from it.            *)
(***************************************************************************)
MkMesh(positions, indices) ==
  [positions |-> positions, indices |-> indices,
   vertexCount |-> Len(positions), faceCount |-> Len(indices) \div 3]

\* Infinity, for distances in micrometres
Infinity == 1000000000

\* a number that may be NaN
NaN == [nan |-> TRUE, v |-> 0]

Num(x) == [nan |-> FALSE, v |-> x]

\* cx, cy, cz of separateFaces and trimRim: the sum of the positions and their
\* count; n = 0 stands for the NaN centroid (0/0, or a NaN coordinate summed in)
Centroid(positions) ==
  IF \E i \in 1..Len(positions) : IsNaNVec(positions[i]) THEN [sum |-> <<0, 0, 0>>, n |-> 0]
  ELSE
  [sum |-> <<SumSeq([i \in 1..Len(positions) |-> positions[i][1]]),
             SumSeq([i \in 1..Len(positions) |-> positions[i][2]]),
             SumSeq([i \in 1..Len(positions) |-> positions[i][3]])>>,
   n   |-> Len(positions)]

\* n * (p - centroid), exact
FromCentroid(c, p) == <<c.n * p[1] - c.sum[1], c.n * p[2] - c.sum[2], c.n * p[3] - c.sum[3]>>

\* 1000 * (a . b) / (|a| |b|): the dot product of the two unit vectors
UnitDot(a, b) ==
  IF VDot(a, a) = 0 \/ VDot(b, b) = 0 THEN 0
  ELSE RDiv(1000 * RDiv(10000 * VDot(a, b), LenUm(a)), LenUm(b))

\* ten times the length of an integer vector
Len10(v) == ISqrt(100 * VDot(v, v))

\* a vector scaled to length 1000 (first brought to components of about 1000)
Normalize(v) ==
  LET m == Max2(Max2(Abs(v[1]), Abs(v[2])), Abs(v[3]))
      w == IF m = 0 THEN v
           ELSE IF m >= 1000
             THEN <<RDiv(v[1], m \div 1000 + 1), RDiv(v[2], m \div 1000 + 1),
                    RDiv(v[3], m \div 1000 + 1)>>
             ELSE <<v[1] * (1000 \div m), v[2] * (1000 \div m), v[3] * (1000 \div m)>>
      l == Len10(w)
  IN  IF l = 0 THEN <<0, 0, 0>>
      ELSE <<RDiv(10000 * w[1], l), RDiv(10000 * w[2], l), RDiv(10000 * w[3], l)>>

\* faceData[f]: dot of the unit face normal with the unit direction to the
\* centroid (thousandths), and the distance of the face centre to the centroid
FaceInfo(positions, indices, c, f) ==
  LET tri == FaceOf(indices, f)
      a   == PosAt(positions, tri[1])
      b   == PosAt(positions, tri[2])
      cc  == PosAt(positions, tri[3])
  IN  IF IsNaNVec(a) \/ IsNaNVec(b) \/ IsNaNVec(cc) \/ c.n = 0
      THEN [index |-> f, dot |-> NaN, distance |-> 1000]
      ELSE LET nrm == VCross(VSub(b, a), VSub(cc, a))
               fs  == VAdd(VAdd(a, b), cc)
               dt  == <<3 * c.sum[1] - c.n * fs[1], 3 * c.sum[2] - c.n * fs[2],
                        3 * c.sum[3] - c.n * fs[3]>>
           IN  [index    |-> f,
                dot      |-> Num(UnitDot(nrm, dt)),
                distance |-> IF VDot(dt, dt) = 0 THEN 1000 ELSE RDiv(LenUm(dt), 3 * c.n)]

\* s sorted ascending (Array.prototype.sort with a numeric comparator)
RECURSIVE SortAsc(_)
SortAsc(s) ==
  IF Len(s) <= 1 THEN s
  ELSE LET k == CHOOSE i \in 1..Len(s) : \A j \in 1..Len(s) : s[i] <= s[j]
       IN  <<s[k]>> \o SortAsc([i \in 1..(Len(s) - 1) |-> IF i < k THEN s[i] ELSE s[i + 1]])

\* distances[Math.floor(length * q / 4)] ?? 0
Quartile(sorted, q) ==
  IF (Len(sorted) * q) \div 4 + 1 \in DOMAIN sorted THEN sorted[(Len(sorted) * q) \div 4 + 1] ELSE 0

\* maxDistance = q3 || q1 || Infinity
MaxDistance(sorted) ==
  IF Quartile(sorted, 3) # 0 THEN Quartile(sorted, 3)
  ELSE IF Quartile(sorted, 1) # 0 THEN Quartile(sorted, 1) ELSE Infinity

\* the candidate faces: concave and near, else all faces that look inward
CandidateFaces(faceData) ==
  LET md     == MaxDistance(SortAsc([i \in 1..Len(faceData) |-> faceData[i].distance]))
      strict == SelectSeq(faceData,
                  LAMBDA f : ~f.dot.nan /\ f.dot.v > 500 /\ f.distance <= md)
  IN  IF strict # <<>> THEN strict
      ELSE SelectSeq(faceData, LAMBDA f : ~f.dot.nan /\ f.dot.v > 0)

\* two candidate faces are adjacent when they share a vertex
FacesAdjacent(indices, f, g) ==
  f # g /\ SeqToSet(FaceOf(indices, f)) \cap SeqToSet(FaceOf(indices, g)) # {}

\* the faces reached from the set comp through adjacency inside cand
RECURSIVE GrowComponent(_, _, _)
GrowComponent(indices, cand, comp) ==
  LET nxt == comp \cup {g \in cand : \E f \in comp : FacesAdjacent(indices, f, g)}
  IN  IF nxt = comp THEN comp ELSE GrowComponent(indices, cand, nxt)

\* components in the order the scan over the candidates discovers them
RECURSIVE Components(_, _, _)
Components(indices, cand, todo) ==
  IF todo = <<>> THEN <<>>
  ELSE LET comp == GrowComponent(indices, cand, {Head(todo)})
       IN  <<comp>> \o Components(indices, cand, SelectSeq(todo, LAMBDA f : f \notin comp))

\* the first of the smallest components
SmallestComponent(comps) ==
  IF comps = <<>> THEN {}
  ELSE comps[CHOOSE i \in 1..Len(comps) :
               /\ \A j \in 1..Len(comps) : Cardinality(comps[i]) <= Cardinality(comps[j])
               /\ \A j \in 1..(i - 1) : Cardinality(comps[j]) > Cardinality(comps[i])]

\* components.sort by size, largest first (stable); components[0] ?? []
LargestComponent(comps) ==
  IF comps = <<>> THEN {}
  ELSE comps[CHOOSE i \in 1..Len(comps) :
               /\ \A j \in 1..Len(comps) : Cardinality(comps[i]) >= Cardinality(comps[j])
               /\ \A j \in 1..(i - 1) : Cardinality(comps[j]) < Cardinality(comps[i])]

\* the old vertex indices of the listed faces, one entry per corner (no welding)
VertexOrderPerCorner(indices, faceIndices) ==
  [i \in 1..(3 * Len(faceIndices)) |->
     FaceOf(indices, faceIndices[((i - 1) \div 3) + 1])[((i - 1) % 3) + 1]]

\* the old vertex indices of the listed faces, each once, in first-use order
VertexOrder(indices, faceIndices) ==
  LET used(i) == FaceOf(indices, faceIndices[((i - 1) \div 3) + 1])[((i - 1) % 3) + 1]
      firsts  == SelectSeq([i \in 1..(3 * Len(faceIndices)) |-> <<i, used(i)>>],
                           LAMBDA u : \A j \in 1..(u[1] - 1) : used(j) # u[2])
  IN  [k \in 1..Len(firsts) |-> firsts[k][2]]

\* the position of x in the duplicate-free sequence s, 0-based
IndexIn(s, x) == (CHOOSE k \in 1..Len(s) : s[k] = x) - 1

\* buildMeshFromFaces: the faces' vertices renumbered in first-use order
BuildMeshFromFaces(positions, indices, faceIndices) ==
  LET order == VertexOrder(indices, faceIndices)
  IN  [positions   |-> [k \in 1..Len(order) |-> PosAt(positions, order[k])],
       indices     |-> Flatten([k \in 1..Len(faceIndices) |->
                         LET tri == FaceOf(indices, faceIndices[k])
                         IN  <<IndexIn(order, tri[1]), IndexIn(order, tri[2]),
                               IndexIn(order, tri[3])>>]),
       vertexCount |-> Len(order),
       faceCount   |-> Len(faceIndices)]

\* meanDistanceToPoint, in micrometres: 0 for no vertex, NaN with a NaN vertex
MeanDistanceToPoint(positions, c) ==
  IF Len(positions) = 0 THEN Num(0)
  ELSE IF c.n = 0 \/ \E i \in 1..Len(positions) : IsNaNVec(positions[i]) THEN NaN
  ELSE Num(RDiv(SumSeq([i \in 1..Len(positions) |->
                 RDiv(LenUm(FromCentroid(c, positions[i])), c.n)]), Len(positions)))

\* innerMean > outerMean (false when either is NaN)
NumGreater(a, b) == ~a.nan /\ ~b.nan /\ a.v > b.v

\* the covariance sums cxx, cxy, cxz, cyy, cyz, czz (scaled by n^2 of the centroid)
Covariance(positions, c) ==
  LET d(i) == FromCentroid(c, positions[i])
      S(a, b) == SumSeq([i \in 1..Len(positions) |-> d(i)[a] * d(i)[b]])
  IN  <<<<S(1, 1), S(1, 2), S(1, 3)>>, <<S(1, 2), S(2, 2), S(2, 3)>>,
        <<S(1, 3), S(2, 3), S(3, 3)>>>>

MatVec(m, v) == <<VDot(m[1], v), VDot(m[2], v), VDot(m[3], v)>>

\* the power iteration: v <- M v / |M v|, stopped after iter rounds, at a zero
\* product, or at a fixed point (which the remaining rounds would not leave)
RECURSIVE PowerIteration(_, _, _)
PowerIteration(m, v, iter) ==
  IF iter = 0 THEN v
  ELSE LET nv == MatVec(m, v)
       IN  IF nv = <<0, 0, 0>> THEN v
           ELSE LET u == Normalize(nv)
                IN  IF u = v THEN v ELSE PowerIteration(m, u, iter - 1)

\* eigenval1 = v^T C v, for v in thousandths
Rayleigh(m, v) ==
  RDiv(VDot(v, <<RDiv(VDot(m[1], v), 1000), RDiv(VDot(m[2], v), 1000),
                 RDiv(VDot(m[3], v), 1000)>>), 1000)

\* C - eigenval1 * v v^T
Deflate(m, lambda, v) ==
  [a \in 1..3 |-> [b \in 1..3 |-> m[a][b] - RDiv(lambda * RDiv(v[a] * v[b], 1000), 1000)]]

\* computeCupAxis: the third principal direction, turned away from the side
\* of the centroid that holds more than half of the vertices
ComputeCupAxis(positions, c) ==
  IF Len(positions) = 0 THEN <<0, 1000, 0>>
  ELSE IF c.n = 0 \/ \E i \in 1..Len(positions) : IsNaNVec(positions[i]) THEN <<0, 1000, 0>>
  ELSE Bind(Covariance(positions, c), LAMBDA cov :
       Bind(PowerIteration(cov, <<1000, 0, 0>>, 50), LAMBDA v1 :
       Bind(PowerIteration(Deflate(cov, Rayleigh(cov, v1), v1), <<0, 1000, 0>>, 50), LAMBDA v2 :
       Bind(VCross(v1, v2), LAMBDA x :
       Bind(IF x = <<0, 0, 0>> THEN <<0, 1000, 0>> ELSE Normalize(x), LAMBDA axis :
         IF 2 * Cardinality({i \in 1..Len(positions) :
                               VDot(FromCentroid(c, positions[i]), axis) > 0}) > Len(positions)
         THEN <<-axis[1], -axis[2], -axis[3]>> ELSE axis)))))

\* the inner and outer meshes of separateFaces: the largest component of the
\* candidate faces and the rest, exchanged if the inner one lies further out
InnerOuter(positions, indices, c, innerSet) ==
  Bind([k \in 1..(Len(indices) \div 3) |-> k - 1], LAMBDA allFaces :
  Bind(BuildMeshFromFaces(positions, indices, FilterIn(allFaces, innerSet)), LAMBDA inner :
  Bind(BuildMeshFromFaces(positions, indices, FilterIn(allFaces, SeqToSet(allFaces) \ innerSet)),
       LAMBDA outer :
    IF NumGreater(MeanDistanceToPoint(inner.positions, c),
                  MeanDistanceToPoint(outer.positions, c))
    THEN [inner |-> outer, outer |-> inner] ELSE [inner |-> inner, outer |-> outer])))

\* separateFaces
SeparateFaces(meshData) ==
  Bind(Centroid(meshData.positions), LAMBDA c :
  Bind(CandidateFaces([k \in 1..(Len(meshData.indices) \div 3) |->
                         FaceInfo(meshData.positions, meshData.indices, c, k - 1)]),
       LAMBDA candidates :
  Bind([k \in 1..Len(candidates) |-> candidates[k].index], LAMBDA candSeq :
  Bind(InnerOuter(meshData.positions, meshData.indices, c,
                  LargestComponent(Components(meshData.indices, SeqToSet(candSeq), candSeq))),
       LAMBDA io :
    [inner    |-> io.inner,
     outer    |-> io.outer,
     centroid |-> c,
     cupAxis  |-> ComputeCupAxis(io.inner.positions, c)]))))

\* heights[i] of trimRim, times n * 1000: NaN for a NaN centroid or a missing vertex
HeightOf(positions, c, cupAxis, i) ==
  IF c.n = 0 \/ IsNaNVec(PosAt(positions, i)) THEN NaN
  ELSE Num(VDot(FromCentroid(c, PosAt(positions, i)), cupAxis))

\* trimIdx = Math.ceil((percent / 100) * heightsSorted.length), in doubles
TrimIdx(percent, count) == DCeil(DMul(DRatio(percent, 100), DInt(count)))

\* heightsSorted[Math.max(0, trimIdx - 1)]: NaN where the entry is undefined
TrimThreshold(sorted, percent) ==
  LET k == Max2(0, TrimIdx(percent, Len(sorted)) - 1) + 1
  IN  IF k \in DOMAIN sorted THEN Num(sorted[k]) ELSE NaN

\* trimRim keeping the faces whose vertices are at the threshold or above
TrimWithAtOrAbove(meshData, h, sorted, threshold, percent) ==
  LET allFaces == [k \in 1..meshData.faceCount |-> k - 1]
      atOrAbove(x) == ~x.nan /\ ~threshold.nan /\ x.v >= threshold.v
      kept     == {f \in SeqToSet(allFaces) :
                     \A v \in 1..3 : atOrAbove(h[FaceOf(meshData.indices, f)[v] + 1])}
  IN  [mesh    |-> BuildMeshFromFaces(meshData.positions, meshData.indices,
                                      FilterIn(allFaces, kept)),
       rimMesh |-> BuildMeshFromFaces(meshData.positions, meshData.indices,
                                      FilterIn(allFaces, SeqToSet(allFaces) \ kept)),
       rimPercentRemoved |-> percent,
       heightRange |-> IF sorted = <<>> THEN <<Infinity, -Infinity>>
                       ELSE <<sorted[1], sorted[Len(sorted)]>>]

\* the result of trimRim for the heights h of the vertices (NaN or a number)
TrimWith(meshData, h, sorted, threshold, percent) ==
  LET allFaces == [k \in 1..meshData.faceCount |-> k - 1]
      kept     == {f \in SeqToSet(allFaces) :
                     \A v \in 1..3 : NumGreater(h[FaceOf(meshData.indices, f)[v] + 1], threshold)}
  IN  [mesh    |-> BuildMeshFromFaces(meshData.positions, meshData.indices,
                                      FilterIn(allFaces, kept)),
       rimMesh |-> BuildMeshFromFaces(meshData.positions, meshData.indices,
                                      FilterIn(allFaces, SeqToSet(allFaces) \ kept)),
       rimPercentRemoved |-> percent,
       heightRange |-> IF sorted = <<>> THEN <<Infinity, -Infinity>>
                       ELSE <<sorted[1], sorted[Len(sorted)]>>]

\* trimRim: faces with all three heights above the threshold are kept
TrimRim(meshData, cupAxis, percent) ==
  Bind(Centroid(meshData.positions), LAMBDA c :
  Bind([i \in 1..meshData.vertexCount |-> HeightOf(meshData.positions, c, cupAxis, i - 1)],
       LAMBDA h :
  Bind(SelectSeq(h, LAMBDA x : ~x.nan), LAMBDA defined :
  Bind(SortAsc([k \in 1..Len(defined) |-> defined[k].v]), LAMBDA sorted :
    TrimWith(meshData, h, sorted,
             IF Len(defined) = meshData.vertexCount THEN TrimThreshold(sorted, percent) ELSE NaN,
             percent)))))

(***************************************************************************)
(* SphereFitter                                                            *)
(*                                                                         *)
(* The normal equations are solved exactly; centre, radius and residuals   *)
(* are rounded to micrometres, weights to thousandths.                     *)
(***************************************************************************)
\* behaviours of ml-matrix for a matrix without rows: newer releases build it
\* (and return the transpose as its pseudo-inverse), older ones reject it
MlMatrixVersions == {"acceptsEmpty", "rejectsEmpty"}

MatrixRangeError == "RangeError"
SvdEmptyError == "Matrix must be non-empty"

\* x * x + y * y + z * z
SqNorm(p) == VDot(p, p)

\* At.mmul(A) for rows [x, y, z, 1] * sqrt(w): weights w in thousandths
NormalMatrix(positions, weights) ==
  LET row(i) == <<positions[i][1], positions[i][2], positions[i][3], 1>>
  IN  [r \in 1..4 |-> [c \in 1..4 |->
        SumSeq([i \in 1..Len(positions) |-> weights[i] * row(i)[r] * row(i)[c]])]]

\* At.mmul(B)
NormalVector(positions, weights) ==
  LET row(i) == <<positions[i][1], positions[i][2], positions[i][3], 1>>
  IN  [r \in 1..4 |->
        SumSeq([i \in 1..Len(positions) |-> weights[i] * row(i)[r] * SqNorm(positions[i])])]

\* the position of vertex i in micrometres
PosUm(positions, i) == <<100 * positions[i][1], 100 * positions[i][2], 100 * positions[i][3]>>

\* centre (x0, y0, z0) = (a/2, b/2, c/2) and radius sqrt(d + x0^2 + y0^2 + z0^2)
\* of a solution, in micrometres
SolutionSphere(sol) ==
  LET center == [j \in 1..3 |-> SRatio(sol.num[j], sol.det, 50)]
      d      == SRatio(sol.num[4], sol.det, 10000)
  IN  [center |-> center, radius |-> ISqrt(Max2(0, d + SqNorm(center)))]

\* residuals[i] = |p_i - centre| - radius
Residuals(positions, sphere) ==
  [i \in 1..Len(positions) |->
     ISqrt(SqNorm(VSub(PosUm(positions, i), sphere.center))) - sphere.radius]

MaxAbs(s) == IF s = <<>> THEN 0 ELSE CHOOSE mx \in {Abs(s[i]) : i \in 1..Len(s)} :
                                       \A i \in 1..Len(s) : Abs(s[i]) <= mx

\* the fit of an empty matrix accepted by the library: A^T A is the zero
\* matrix, solve throws, the pseudo-inverse solution is zero
EmptyFit ==
  [center |-> <<0, 0, 0>>, radius |-> 0, rmsError |-> NaN, maxError |-> 0, residuals |-> <<>>]

\* the result of a fit: centre, radius, the residuals, and the rms and
\* maximum of the residuals (the rms over the points counted)
FitResult(sphere, res, counted) ==
  [center |-> sphere.center, radius |-> sphere.radius,
   rmsError |-> Num(ISqrt(RDiv(
      SumSeq([i \in 1..Len(res) |-> IF i \in counted THEN res[i] * res[i] ELSE 0]),
      Max2(1, Cardinality(counted))))),
   maxError |-> MaxAbs(res), residuals |-> res]

\* fitSphere
FitSphere(positions, lib) ==
  IF positions = <<>> THEN
    (IF lib = "rejectsEmpty" THEN [ok |-> FALSE, error |-> MatrixRangeError]
     ELSE [ok |-> TRUE, fit |-> EmptyFit])
  ELSE
    Bind([i \in 1..Len(positions) |-> 1], LAMBDA ones :
    Bind(Solve(NormalMatrix(positions, ones), NormalVector(positions, ones)), LAMBDA sol :
      IF sol.singular THEN [ok |-> FALSE, error |-> "pseudoInverse"]
      ELSE Bind(SolutionSphere(sol), LAMBDA sphere :
           Bind(Residuals(positions, sphere), LAMBDA res :
             [ok |-> TRUE, fit |-> FitResult(sphere, res, 1..Len(res))]))))

\* Tukey bisquare weight of a residual, in thousandths; sigma = max(rms, 1e-6)
\* is below every non-zero residual when the rms rounds to zero
TukeyWeight(residual, rms) ==
  IF rms.nan THEN 0
  ELSE IF rms.v = 0 THEN (IF residual = 0 THEN 1000 ELSE 0)
  ELSE IF Abs(residual) < 3 * rms.v THEN
         LET u == RDiv(1000 * Abs(residual), 3 * rms.v)
             w == 1000 - RDiv(u * u, 1000)
         IN  RDiv(w * w, 1000)
  ELSE 0

\* one iteration of the loop of fitSphereRobust: the re-fit, or Null after break
Refit(positions, result) ==
  Bind([i \in 1..Len(positions) |-> TukeyWeight(result.residuals[i], result.rmsError)],
       LAMBDA weights :
  Bind(Solve(NormalMatrix(positions, weights), NormalVector(positions, weights)), LAMBDA sol :
    IF sol.singular THEN Null
    ELSE Bind(SolutionSphere(sol), LAMBDA sphere :
         Bind(Residuals(positions, sphere), LAMBDA res :
           Some(FitResult(sphere, res, {i \in 1..Len(res) : weights[i] > 10}))))))

RobustIterations == 5

RECURSIVE RobustLoop(_, _, _)
RobustLoop(positions, result, iter) ==
  IF iter >= RobustIterations THEN result
  ELSE Bind(Refit(positions, result), LAMBDA next :
         IF next = Null THEN result ELSE RobustLoop(positions, Val(next), iter + 1))

\* fitSphereRobust raising the singularity of the first weighted solve
FitSphereRobustRaising(positions, lib) ==
  Bind(FitSphere(positions, lib), LAMBDA first :
    IF ~first.ok THEN first
    ELSE IF Refit(positions, first.fit) = Null THEN [ok |-> FALSE, error |-> "singular"]
    ELSE [ok |-> TRUE, fit |-> RobustLoop(positions, first.fit, 0)])

\* fitSphereRobust
FitSphereRobust(positions, lib) ==
  Bind(FitSphere(positions, lib), LAMBDA first :
    IF ~first.ok THEN first
    ELSE [ok |-> TRUE, fit |-> RobustLoop(positions, first.fit, 0)])

(***************************************************************************)
(* EllipsoidFitter                                                         *)
(*                                                                         *)
(* The fitted ellipsoid is a function of the points alone; the model keeps *)
(* the points it was fitted to in place of the semi-axes and rotation.     *)
(***************************************************************************)
\* fitEllipsoid: without points the design matrix has no rows, and either the
\* Matrix constructor or new SVD(M) throws
FitEllipsoid(positions, lib) ==
  IF positions = <<>>
  THEN [ok |-> FALSE,
        error |-> IF lib = "rejectsEmpty" THEN MatrixRangeError ELSE SvdEmptyError]
  ELSE [ok |-> TRUE, fit |-> [fittedTo |-> positions]]

(***************************************************************************)
(* PriorityQueue: a binary min-heap of [vertex, distance]; positions are   *)
(* 0-based as in the code, the sequence is 1-based                         *)
(***************************************************************************)
Swap(heap, i, j) == [heap EXCEPT ![i + 1] = heap[j + 1], ![j + 1] = heap[i + 1]]

RECURSIVE BubbleUp(_, _)
BubbleUp(heap, i) ==
  IF i > 0 /\ heap[i + 1].distance < heap[(i - 1) \div 2 + 1].distance
  THEN BubbleUp(Swap(heap, i, (i - 1) \div 2), (i - 1) \div 2)
  ELSE heap

RECURSIVE SinkDown(_, _)
SinkDown(heap, i) ==
  LET n      == Len(heap)
      left   == 2 * i + 1
      right  == 2 * i + 2
      s1     == IF left < n /\ heap[left + 1].distance < heap[i + 1].distance THEN left ELSE i
      smallest == IF right < n /\ heap[right + 1].distance < heap[s1 + 1].distance
                  THEN right ELSE s1
  IN  IF smallest # i THEN SinkDown(Swap(heap, i, smallest), smallest) ELSE heap

PqPush(heap, vertex, distance) ==
  BubbleUp(Append(heap, [vertex |-> vertex, distance |-> distance]), Len(heap))

\* pop of a non-empty queue: the top entry and the queue left
PqPop(heap) ==
  [top  |-> heap[1],
   heap |-> IF Len(heap) = 1 THEN <<>>
            ELSE SinkDown([SubSeq(heap, 1, Len(heap) - 1) EXCEPT ![1] = heap[Len(heap)]], 0)]

(***************************************************************************)
(* GeodesicSolver                                                          *)
(***************************************************************************)
\* the loop over the neighbours of u with a distance that is set when a
\* vertex is first seen and never improved
RECURSIVE RelaxFirstSeen(_, _, _, _, _)
RelaxFirstSeen(g, u, i, end, d) ==
  IF i >= end THEN d
  ELSE LET v       == g.neighbors[i + 1]
           newDist == d.distances[u + 1] + g.weights[i + 1]
       IN  IF v \notin d.visited /\ d.distances[v + 1] = Infinity
           THEN RelaxFirstSeen(g, u, i + 1, end,
                               [d EXCEPT !.distances[v + 1] = newDist,
                                         !.predecessors[v + 1] = u,
                                         !.pq = PqPush(d.pq, v, newDist)])
           ELSE RelaxFirstSeen(g, u, i + 1, end, d)

\* the loop over the neighbours of u: entries i..end-1 of the flat arrays
RECURSIVE Relax(_, _, _, _, _)
Relax(g, u, i, end, d) ==
  IF i >= end THEN d
  ELSE LET v       == g.neighbors[i + 1]
           newDist == d.distances[u + 1] + g.weights[i + 1]
       IN  IF v \notin d.visited /\ newDist < d.distances[v + 1]
           THEN Relax(g, u, i + 1, end,
                      [d EXCEPT !.distances[v + 1] = newDist,
                                !.predecessors[v + 1] = u,
                                !.pq = PqPush(d.pq, v, newDist)])
           ELSE Relax(g, u, i + 1, end, d)

\* while (pq.size > 0)
RECURSIVE DijkstraLoop(_, _)
DijkstraLoop(g, d) ==
  IF d.pq = <<>> THEN d
  ELSE LET popped == PqPop(d.pq)
           u      == popped.top.vertex
       IN  IF u \in d.visited THEN DijkstraLoop(g, [d EXCEPT !.pq = popped.heap])
           ELSE DijkstraLoop(g, Relax(g, u, g.offsets[u + 1], g.offsets[u + 2],
                                      [d EXCEPT !.pq = popped.heap,
                                                !.visited = d.visited \cup {u}]))

\* dijkstraDistances; a source outside the graph leaves every distance infinite
DijkstraDistances(g, source) ==
  LET n    == g.vertexCount
      init == [distances    |-> [i \in 1..n |-> IF i = source + 1 THEN 0 ELSE Infinity],
               predecessors |-> [i \in 1..n |-> -1],
               visited      |-> {},
               pq           |-> <<[vertex |-> source, distance |-> 0]>>]
      done == IF source \in 0..(n - 1) THEN DijkstraLoop(g, init) ELSE init
  IN  [distances |-> done.distances, predecessors |-> done.predecessors]

\* p - sphereCenter in micrometres
FromCenter(p, sphereCenter) == VSub(<<100 * p[1], 100 * p[2], 100 * p[3]>>, sphereCenter)

\* findPoleVertex: the first vertex of largest projection on the cup axis
FindPoleVertex(positions, vertexCount, sphereCenter, cupAxis) ==
  LET proj(i) == VDot(FromCenter(PosAt(positions, i), sphereCenter), cupAxis)
      ok      == {i \in 0..(vertexCount - 1) : ~IsNaNVec(PosAt(positions, i))}
  IN  IF ok = {} THEN 0
      ELSE CHOOSE i \in ok : \A j \in ok : proj(j) < proj(i) \/ (proj(j) = proj(i) /\ i <= j)

\* 10000 * tan((j - 1/2) degrees) for j = 1..45
TanTable ==
  <<87, 262, 437, 612, 787, 963, 1139, 1317, 1495, 1673, 1853, 2035, 2217, 2401, 2586,
    2773, 2962, 3153, 3346, 3541, 3739, 3939, 4142, 4348, 4557, 4770, 4986, 5206, 5430,
    5658, 5890, 6128, 6371, 6619, 6873, 7133, 7400, 7673, 7954, 8243, 8541, 8847, 9163,
    9490, 9827>>

\* atan(b / a) in whole degrees for 0 <= b <= a, a > 0
OctantDeg(a, b) == Cardinality({j \in 1..45 : TanTable[j] * a <= 10000 * b})

\* Math.atan2(v, u) in whole degrees, brought into [0, 360)
Atan2Deg(v, u) ==
  LET a     == Abs(u)
      b     == Abs(v)
      theta == IF a = 0 /\ b = 0 THEN 0
               ELSE IF b <= a THEN OctantDeg(a, b) ELSE 90 - OctantDeg(b, a)
  IN  IF u >= 0 /\ v >= 0 THEN theta
      ELSE IF u < 0 /\ v >= 0 THEN 180 - theta
      ELSE IF u < 0 THEN 180 + theta
      ELSE (360 - theta) % 360

\* the axes U and V of computeVertexAngles, in thousandths
AngleFrame(cupAxis) ==
  LET u == Normalize(IF Abs(cupAxis[1]) < 900 THEN <<0, -cupAxis[3], cupAxis[2]>>
                     ELSE <<cupAxis[3], 0, -cupAxis[1]>>)
      w == VCross(cupAxis, u)
  IN  [u |-> u, v |-> <<RDiv(w[1], 1000), RDiv(w[2], 1000), RDiv(w[3], 1000)>>]

\* computeVertexAngles: the longitude of every vertex, in degrees
ComputeVertexAngles(positions, vertexCount, sphereCenter, cupAxis) ==
  LET frame == AngleFrame(cupAxis)
  IN  [i \in 1..vertexCount |->
         LET d == FromCenter(PosAt(positions, i - 1), sphereCenter)
         IN  Atan2Deg(RDiv(VDot(d, frame.v), 1000), RDiv(VDot(d, frame.u), 1000))]

\* |p - sphereCenter| in micrometres
RadiusAt(positions, i, sphereCenter) ==
  ISqrt(SqNorm(FromCenter(PosAt(positions, i), sphereCenter)))

\* avgRadius of computeGeodesics
AvgRadius(positions, vertexCount, sphereCenter) ==
  RDiv(SumSeq([i \in 1..vertexCount |-> RadiusAt(positions, i - 1, sphereCenter)]), vertexCount)

\* angleDiff <= bandWidth / 2 for meridian g of geodesicCount: with the angles
\* in degrees, |angle - g * 360 / count| (wrapped) <= 1.5 * (360 / count) / 2
InBand(angle, g, geodesicCount) ==
  LET diff == Abs(angle * geodesicCount - g * 360)
      wrap == IF diff > 180 * geodesicCount THEN 360 * geodesicCount - diff ELSE diff
  IN  wrap <= 270

\* bandVertices.sort((a, b) => a.dist - b.dist): stable
RECURSIVE SortByDist(_)
SortByDist(band) ==
  IF Len(band) <= 1 THEN band
  ELSE LET k == CHOOSE i \in 1..Len(band) :
                  \A j \in 1..Len(band) :
                    band[i].dist < band[j].dist \/ (band[i].dist = band[j].dist /\ i <= j)
       IN  <<band[k]>> \o SortByDist([i \in 1..(Len(band) - 1) |->
                                        IF i < k THEN band[i] ELSE band[i + 1]])

MaxPoints == 500

\* (b - a) / ds, or 0 when ds is not above 1e-12: deviations in micrometres,
\* arc lengths in micrometres, the quotient in micrometres per millimetre
Slope(a, b, ds) == IF ds > 0 THEN RDiv(1000 * (b - a), ds) ELSE 0

\* points[i].derivative
DerivativeAt(points, i) ==
  LET n == Len(points)
  IN  IF n < 2 THEN 0
      ELSE IF i = 1 THEN Slope(points[1].deviation, points[2].deviation,
                               points[2].arcLength - points[1].arcLength)
      ELSE IF i = n THEN Slope(points[n - 1].deviation, points[n].deviation,
                               points[n].arcLength - points[n - 1].arcLength)
      ELSE Slope(points[i - 1].deviation, points[i + 1].deviation,
                 points[i + 1].arcLength - points[i - 1].arcLength)

\* the points of a meridian with their derivatives, and its summary
MeridianOf(raw, first, g, geodesicCount) ==
  LET count == Len(raw)
      devs  == {raw[k].deviation : k \in 1..count}
  IN  [angle        |-> [num |-> g * 360, den |-> geodesicCount],
       points       |-> [k \in 1..count |->
                          [vertexIndex |-> raw[k].vertexIndex, position |-> raw[k].position,
                           arcLength |-> raw[k].arcLength, deviation |-> raw[k].deviation,
                           derivative |-> first[k],
                           secondDerivative |->
                             IF k = 1 \/ k = count THEN 0
                             ELSE Slope(first[k - 1], first[k + 1],
                                        raw[k + 1].arcLength - raw[k - 1].arcLength)]],
       totalLength  |-> IF count > 0 THEN raw[count].arcLength ELSE 0,
       maxDeviation |-> IF devs = {} THEN -Infinity ELSE CHOOSE m \in devs : \A x \in devs : x <= m,
       minDeviation |-> IF devs = {} THEN Infinity ELSE CHOOSE m \in devs : \A x \in devs : m <= x,
       anomalyCount |-> Cardinality({k \in 1..count : Abs(raw[k].deviation) > 1})]

\* the sampled points of a sorted band: every step-th vertex, at most MaxPoints
\* of them for bands of a multiple of MaxPoints vertices
SamplePoints(positions, band, avgRadius, sphereCenter) ==
  LET step  == Max2(1, Len(band) \div MaxPoints)
      count == (Len(band) + step - 1) \div step
      at(k) == band[(k - 1) * step + 1]
  IN  [k \in 1..count |->
         [vertexIndex |-> at(k).idx,
          position    |-> PosAt(positions, at(k).idx),
          arcLength   |-> at(k).dist,
          deviation   |-> RadiusAt(positions, at(k).idx, sphereCenter) - avgRadius]]

\* the meridian made of a sorted band: sampling, derivatives and summary
MeridianFromBand(positions, band, avgRadius, sphereCenter, g, geodesicCount) ==
  Bind(SamplePoints(positions, band, avgRadius, sphereCenter), LAMBDA raw :
  Bind([k \in 1..Len(raw) |-> DerivativeAt(raw, k)], LAMBDA first :
    MeridianOf(raw, first, g, geodesicCount)))

\* one meridian that takes the vertices Dijkstra never reached as well
MeridianOfAllVertices(positions, vertexCount, dist, angles, avgRadius, sphereCenter, g, geodesicCount) ==
  Bind(FilterIn([i \in 1..vertexCount |-> i - 1],
                {i \in 0..(vertexCount - 1) : InBand(angles[i + 1], g, geodesicCount)}),
       LAMBDA inBand :
  Bind(SortByDist([k \in 1..Len(inBand) |-> [idx |-> inBand[k], dist |-> dist[inBand[k] + 1]]]),
       LAMBDA band :
    MeridianFromBand(positions, band, avgRadius, sphereCenter, g, geodesicCount)))

\* one meridian of computeGeodesics
Meridian(positions, vertexCount, dist, angles, avgRadius, sphereCenter, g, geodesicCount) ==
  Bind(FilterIn([i \in 1..vertexCount |-> i - 1],
                {i \in 0..(vertexCount - 1) :
                   dist[i + 1] # Infinity /\ InBand(angles[i + 1], g, geodesicCount)}),
       LAMBDA inBand :
  Bind(SortByDist([k \in 1..Len(inBand) |-> [idx |-> inBand[k], dist |-> dist[inBand[k] + 1]]]),
       LAMBDA band :
    MeridianFromBand(positions, band, avgRadius, sphereCenter, g, geodesicCount)))

\* computeGeodesics: one meridian per g in 0..geodesicCount-1
ComputeGeodesics(positions, vertexCount, graph, poleVertex, sphereCenter, cupAxis, geodesicCount) ==
  Bind(DijkstraDistances(graph, poleVertex).distances, LAMBDA dist :
  Bind(ComputeVertexAngles(positions, vertexCount, sphereCenter, cupAxis), LAMBDA angles :
  Bind(IF vertexCount = 0 THEN 0 ELSE AvgRadius(positions, vertexCount, sphereCenter),
       LAMBDA avgRadius :
    [g \in 1..geodesicCount |->
       Meridian(positions, vertexCount, dist, angles, avgRadius, sphereCenter,
                g - 1, geodesicCount)])))

(***************************************************************************)
(* DeviationAnalyzer                                                       *)
(***************************************************************************)
\* computeVertexDeviations: |p - centre| - radius, in micrometres
ComputeVertexDeviations(positions, vertexCount, sphereCenter, sphereRadius) ==
  [i \in 1..vertexCount |-> RadiusAt(positions, i - 1, sphereCenter) - sphereRadius]

\* the points of all geodesics in walking order, each with its geodesic's angle
GeodesicPoints(geodesics) ==
  Flatten([g \in 1..Len(geodesics) |->
             [k \in 1..Len(geodesics[g].points) |->
                [point |-> geodesics[g].points[k], angle |-> geodesics[g].angle]]])

\* the extraction loop without the set of processed vertices
RECURSIVE ExtractAnomaliesRepeating(_, _, _, _, _)
ExtractAnomaliesRepeating(walk, i, thresholdMicrons, processedVertices, anomalyPoints) ==
  IF i > Len(walk) THEN anomalyPoints
  ELSE LET point == walk[i].point
       IN  IF Abs(point.deviation) > thresholdMicrons
           THEN ExtractAnomaliesRepeating(walk, i + 1, thresholdMicrons, processedVertices,
                  Append(anomalyPoints,
                    [position      |-> point.position,
                     deviation     |-> point.deviation,
                     type          |-> IF point.deviation > 0 THEN "bump" ELSE "dip",
                     geodesicAngle |-> walk[i].angle,
                     arcLength     |-> point.arcLength,
                     derivative    |-> point.derivative,
                     vertexIndex   |-> point.vertexIndex]))
           ELSE ExtractAnomaliesRepeating(walk, i + 1, thresholdMicrons, processedVertices,
                                          anomalyPoints)

\* the extraction loop of analyzeDeviations over the points from position i on
RECURSIVE ExtractAnomalies(_, _, _, _, _)
ExtractAnomalies(walk, i, thresholdMicrons, processedVertices, anomalyPoints) ==
  IF i > Len(walk) THEN anomalyPoints
  ELSE LET point == walk[i].point
       IN  IF point.vertexIndex \notin processedVertices
              /\ Abs(point.deviation) > thresholdMicrons
           THEN ExtractAnomalies(walk, i + 1, thresholdMicrons,
                  processedVertices \cup {point.vertexIndex},
                  Append(anomalyPoints,
                    [position      |-> point.position,
                     deviation     |-> point.deviation,
                     type          |-> IF point.deviation > 0 THEN "bump" ELSE "dip",
                     geodesicAngle |-> walk[i].angle,
                     arcLength     |-> point.arcLength,
                     derivative    |-> point.derivative,
                     vertexIndex   |-> point.vertexIndex]))
           ELSE ExtractAnomalies(walk, i + 1, thresholdMicrons, processedVertices, anomalyPoints)

\* analyzeDeviations: the per-vertex deviations and the anomaly points
AnalyzeDeviations(positions, vertexCount, geodesics, sphereFit, thresholdMicrons) ==
  [vertexDeviations |-> ComputeVertexDeviations(positions, vertexCount,
                                                sphereFit.center, sphereFit.radius),
   anomalyPoints    |-> ExtractAnomalies(GeodesicPoints(geodesics), 1, thresholdMicrons, {}, <<>>)]

(***************************************************************************)
(* AnomalyRegistry                                                         *)
(***************************************************************************)
\* eps = 0.5 mm and minPoints = 3, the defaults clusterAnomalies is called with
Eps == 500

MinPoints == 3

\* labels of dbscan
Unvisited == -1

Noise == -2

\* p.distanceTo(q) <= eps, for positions in tenths of a millimetre
Within(p, q, eps) == 10000 * SqNorm(VSub(p, q)) <= eps * eps

\* regionQuery: the indices (0-based) of the points within eps of point index
RegionQuery(points, index, eps) ==
  FilterIn([i \in 1..Len(points) |-> i - 1],
           {i \in 0..(Len(points) - 1) :
              Within(points[index + 1].position, points[i + 1].position, eps)})

\* the first of the points with the largest |deviation|
MaxDeviationPoint(points) ==
  LET k == CHOOSE i \in 1..Len(points) :
             \A j \in 1..Len(points) :
               Abs(points[j].deviation) < Abs(points[i].deviation)
                 \/ (Abs(points[j].deviation) = Abs(points[i].deviation) /\ i <= j)
  IN  points[k].position

\* buildCluster, for a non-empty list of points
BuildCluster(id, type, points) ==
  LET n        == Len(points)
      centroid == <<RDiv(SumSeq([i \in 1..n |-> 100 * points[i].position[1]]), n),
                    RDiv(SumSeq([i \in 1..n |-> 100 * points[i].position[2]]), n),
                    RDiv(SumSeq([i \in 1..n |-> 100 * points[i].position[3]]), n)>>
      devs     == {points[i].deviation : i \in 1..n}
      radii    == {SqNorm(FromCenter(points[i].position, centroid)) : i \in 1..n}
  IN  [id |-> id, type |-> type, points |-> points, centroid |-> centroid,
       area |-> RDiv(355 * (CHOOSE r \in radii : \A q \in radii : q <= r), 113),
       volume |-> 0,
       avgDeviation |-> RDiv(SumSeq([i \in 1..n |-> points[i].deviation]), n),
       maxDeviation |-> CHOOSE m \in devs : \A x \in devs : x <= m,
       minDeviation |-> CHOOSE m \in devs : \A x \in devs : m <= x,
       maxDeviationPoint |-> MaxDeviationPoint(points)]

\* for (const k of jNeighbors): the unvisited and noise points not yet seeded
\* are added to the seed set and pushed on the seed array
AddSeeds(c, jNeighbors) ==
  LET fresh == FilterIn(jNeighbors,
                 {k \in SeqToSet(jNeighbors) :
                    c.labels[k + 1] \in {Unvisited, Noise} /\ k \notin c.seed})
  IN  [c EXCEPT !.seed = c.seed \cup SeqToSet(fresh), !.seedArray = c.seedArray \o fresh]

\* the expansion taking every seed that was not noise, labelled or not
RECURSIVE ExpandTakingLabelled(_, _, _, _)
ExpandTakingLabelled(points, eps, minPoints, c) ==
  IF c.seedArray = <<>> THEN c
  ELSE LET j      == c.seedArray[Len(c.seedArray)]
           popped == [c EXCEPT !.seedArray = SubSeq(c.seedArray, 1, Len(c.seedArray) - 1)]
       IN  IF c.labels[j + 1] = Noise
           THEN ExpandTakingLabelled(points, eps, minPoints,
                       [popped EXCEPT !.labels[j + 1] = c.clusterId,
                                      !.clusterPoints = Append(c.clusterPoints, points[j + 1])])
           ELSE LET taken == [popped EXCEPT !.labels[j + 1] = c.clusterId,
                                !.clusterPoints = Append(c.clusterPoints, points[j + 1])]
                    jNeighbors == RegionQuery(points, j, eps)
                IN  ExpandTakingLabelled(points, eps, minPoints,
                           IF Len(jNeighbors) >= minPoints THEN AddSeeds(taken, jNeighbors)
                           ELSE taken)

\* while (seedArray.length > 0)
RECURSIVE Expand(_, _, _, _)
Expand(points, eps, minPoints, c) ==
  IF c.seedArray = <<>> THEN c
  ELSE LET j      == c.seedArray[Len(c.seedArray)]
           popped == [c EXCEPT !.seedArray = SubSeq(c.seedArray, 1, Len(c.seedArray) - 1)]
       IN  IF c.labels[j + 1] = Noise
           THEN Expand(points, eps, minPoints,
                       [popped EXCEPT !.labels[j + 1] = c.clusterId,
                                      !.clusterPoints = Append(c.clusterPoints, points[j + 1])])
           ELSE IF c.labels[j + 1] # Unvisited THEN Expand(points, eps, minPoints, popped)
           ELSE LET taken == [popped EXCEPT !.labels[j + 1] = c.clusterId,
                                !.clusterPoints = Append(c.clusterPoints, points[j + 1])]
                    jNeighbors == RegionQuery(points, j, eps)
                IN  Expand(points, eps, minPoints,
                           IF Len(jNeighbors) >= minPoints THEN AddSeeds(taken, jNeighbors)
                           ELSE taken)

\* for (let i = 0; i < n; i++): the density clusters
RECURSIVE DbscanScan(_, _, _, _, _, _)
DbscanScan(points, eps, minPoints, type, i, d) ==
  IF i >= Len(points) THEN d
  ELSE IF d.labels[i + 1] # Unvisited THEN DbscanScan(points, eps, minPoints, type, i + 1, d)
  ELSE LET neighborIndices == RegionQuery(points, i, eps)
       IN  IF Len(neighborIndices) < minPoints
           THEN DbscanScan(points, eps, minPoints, type, i + 1,
                           [d EXCEPT !.labels[i + 1] = Noise])
           ELSE LET c == Expand(points, eps, minPoints,
                           [labels        |-> [d.labels EXCEPT ![i + 1] = d.clusterId],
                            clusterId     |-> d.clusterId,
                            clusterPoints |-> <<points[i + 1]>>,
                            seed          |-> SeqToSet(neighborIndices),
                            seedArray     |-> neighborIndices])
                IN  DbscanScan(points, eps, minPoints, type, i + 1,
                      [labels    |-> c.labels,
                       clusterId |-> d.clusterId + 1,
                       clusters  |-> Append(d.clusters,
                                            BuildCluster(d.clusterId, type, c.clusterPoints))])

SignificantDeviation == 5

\* dbscan returning the density clusters only
DbscanDensityOnly(points, eps, minPoints, type) ==
  DbscanScan(points, eps, minPoints, type, 0,
             [labels |-> [i \in 1..Len(points) |-> Unvisited], clusterId |-> 0,
              clusters |-> <<>>]).clusters

\* dbscan: the density clusters, then one cluster per significant noise point
Dbscan(points, eps, minPoints, type) ==
  LET d == DbscanScan(points, eps, minPoints, type, 0,
             [labels |-> [i \in 1..Len(points) |-> Unvisited], clusterId |-> 0, clusters |-> <<>>])
      loners == FilterIn([i \in 1..Len(points) |-> i],
                  {i \in 1..Len(points) :
                     d.labels[i] = Noise /\ Abs(points[i].deviation) > SignificantDeviation})
  IN  d.clusters \o [k \in 1..Len(loners) |->
                       BuildCluster(d.clusterId + k - 1, type, <<points[loners[k]]>>)]

\* points.filter(p => p.type === type)
OfType(s, type) == FilterIn(s, {x \in SeqToSet(s) : x.type = type})

\* clusterAnomalies leaving each cluster the id dbscan gave it
ClusterAnomaliesKeepingIds(points, eps, minPoints) ==
  Dbscan(OfType(points, "bump"), eps, minPoints, "bump")
    \o Dbscan(OfType(points, "dip"), eps, minPoints, "dip")

\* clusterAnomalies: bump clusters, then dip clusters, with ids in list order
ClusterAnomalies(points, eps, minPoints) ==
  LET all == Dbscan(OfType(points, "bump"), eps, minPoints, "bump")
               \o Dbscan(OfType(points, "dip"), eps, minPoints, "dip")
  IN  [k \in 1..Len(all) |-> [all[k] EXCEPT !.id = k - 1]]

\* findPrimaryWearZone without the sort: the id of the first dip cluster
FindPrimaryWearZoneUnsorted(clusters) ==
  LET dips == OfType(clusters, "dip")
  IN  IF dips = <<>> THEN Null ELSE Some(dips[1].id)

\* findPrimaryWearZone: the id of the first dip cluster of least minDeviation,
\* Null without a dip cluster
FindPrimaryWearZone(clusters) ==
  LET dips == OfType(clusters, "dip")
  IN  IF dips = <<>> THEN Null
      ELSE Some(dips[CHOOSE i \in 1..Len(dips) :
                        \A j \in 1..Len(dips) :
                          dips[i].minDeviation < dips[j].minDeviation
                            \/ (dips[i].minDeviation = dips[j].minDeviation /\ i <= j)].id)

(***************************************************************************)
(* VolumeComputer: lengths in micrometres, volumes in cubic micrometres    *)
(***************************************************************************)
\* a vertex position in micrometres
Um(p) == <<100 * p[1], 100 * p[2], 100 * p[3]>>

\* projectOntoSphere
ProjectOntoSphere(point, center, radius) ==
  LET dir == VSub(point, center)
      len == ISqrt(SqNorm(dir))
  IN  IF len = 0 THEN VAdd(center, <<radius, 0, 0>>)
      ELSE VAdd(center, <<RDiv(dir[1] * radius, len), RDiv(dir[2] * radius, len),
                          RDiv(dir[3] * radius, len)>>)

\* six times signedTetraVolume
SixTetraVolume(a, b, c, d) == VDot(VSub(b, a), VCross(VSub(c, a), VSub(d, a)))

\* vertexClusterMap.get(vertex): the id of the last cluster with a point on the
\* vertex, Null for none
ClusterOfVertex(clusters, vertex) ==
  LET ids == {k \in 1..Len(clusters) :
                \E i \in 1..Len(clusters[k].points) : clusters[k].points[i].vertexIndex = vertex}
  IN  IF ids = {} THEN Null
      ELSE Some(clusters[CHOOSE k \in ids : \A j \in ids : j <= k].id)

\* the volume between a triangle v and its projection sp on the sphere: three
\* tetrahedra
PrismVolume(v, sp) ==
  RDiv(SixTetraVolume(v[1], v[2], v[3], sp[1]) + SixTetraVolume(sp[1], v[2], v[3], sp[2])
         + SixTetraVolume(sp[1], sp[2], v[3], sp[3]), 6)

\* the cluster found looking at i2 first, then i1, then i0
ClusterOfFaceLastFirst(clusters, tri) ==
  Bind(ClusterOfVertex(clusters, tri[3]), LAMBDA c3 :
    IF c3 # Null THEN c3
    ELSE Bind(ClusterOfVertex(clusters, tri[2]), LAMBDA c2 :
           IF c2 # Null THEN c2 ELSE ClusterOfVertex(clusters, tri[1])))

\* the cluster found for i0 ?? i1 ?? i2
ClusterOfFace(clusters, tri) ==
  Bind(ClusterOfVertex(clusters, tri[1]), LAMBDA c1 :
    IF c1 # Null THEN c1
    ELSE Bind(ClusterOfVertex(clusters, tri[2]), LAMBDA c2 :
           IF c2 # Null THEN c2 ELSE ClusterOfVertex(clusters, tri[3])))

\* d0 + d1 + d2 for a face: NaN when a corner is past the end of the
\* deviations (the read gives undefined)
FaceDeviationSum(vertexDeviations, tri) ==
  IF \E k \in 1..3 : tri[k] >= Len(vertexDeviations) THEN NaN
  ELSE Num(vertexDeviations[tri[1] + 1] + vertexDeviations[tri[2] + 1]
             + vertexDeviations[tri[3] + 1])

\* what face f adds: nothing when |avgDev| <= threshold, else |vol|, the side
\* chosen by the sign of avgDev, and the cluster of the face; a NaN avgDev
\* passes both comparisons as false, and the face counts as a dip
FaceVolume(meshData, sphereFit, vertexDeviations, clusters, thresholdMicrons, f) ==
  Bind(FaceOf(meshData.indices, f), LAMBDA tri :
  Bind(FaceDeviationSum(vertexDeviations, tri), LAMBDA sum :
    IF ~sum.nan /\ Abs(sum.v) <= 3 * thresholdMicrons THEN [counted |-> FALSE]
    ELSE Bind([k \in 1..3 |-> Um(PosAt(meshData.positions, tri[k]))], LAMBDA v :
         Bind([k \in 1..3 |-> ProjectOntoSphere(v[k], sphereFit.center, sphereFit.radius)],
              LAMBDA sp :
           [counted |-> TRUE, bump |-> ~sum.nan /\ sum.v > 0, vol |-> Abs(PrismVolume(v, sp)),
            cluster |-> ClusterOfFace(clusters, tri)]))))

\* the totals over the faces and the volume of every cluster
VolumeTotals(faces, clusters) ==
  LET total(bump) == SumSeq([k \in 1..Len(faces) |->
                       IF faces[k].counted /\ faces[k].bump = bump THEN faces[k].vol ELSE 0])
      ofCluster(id) == SumSeq([k \in 1..Len(faces) |->
                         IF faces[k].counted /\ faces[k].cluster = Some(id)
                         THEN faces[k].vol ELSE 0])
  IN  [totalBumpVolume |-> total(TRUE),
       totalDipVolume  |-> total(FALSE),
       totalWearVolume |-> total(TRUE) + total(FALSE),
       clusterVolumes  |-> [k \in 1..Len(clusters) |-> ofCluster(clusters[k].id)]]

\* computeDefectVolumes: the totals and the volume of every cluster
ComputeDefectVolumes(meshData, sphereFit, vertexDeviations, clusters, thresholdMicrons) ==
  Bind([k \in 1..meshData.faceCount |->
          FaceVolume(meshData, sphereFit, vertexDeviations, clusters, thresholdMicrons, k - 1)],
       LAMBDA faces : VolumeTotals(faces, clusters))

\* computeWearVector for a primary wear zone; the angle to the cup axis is kept
\* as its cosine, in thousandths
ComputeWearVector(zone, polePosition, cupAxis) ==
  LET direction == Normalize(VSub(zone.maxDeviationPoint, polePosition))
  IN  [deepestPoint |-> zone.maxDeviationPoint,
       polePoint    |-> polePosition,
       direction    |-> direction,
       cosAngle     |-> Max2(-1000, Min2(1000, RDiv(VDot(direction, cupAxis), 1000))),
       distance     |-> LenUm(VSub(zone.maxDeviationPoint, polePosition)),
       maxDepth     |-> Abs(zone.minDeviation)]

(***************************************************************************)
(* Input meshes                                                            *)
(*                                                                         *)
(* A cup opening towards +z: the bearing surface is a pole and three rings *)
(* of four vertices on the sphere of radius 5 about (0,0,5); the back of   *)
(* the shell is a fan from an apex below the pole to the rim ring.         *)
(***************************************************************************)
\* the four vertices of a ring of radius r at height z
Ring(r, z) == <<<<r, 0, z>>, <<0, r, z>>, <<-r, 0, z>>, <<0, -r, z>>>>

\* fan of the vertex at index apex to the ring starting at index base
FanFaces(apex, base) ==
  Flatten([i \in 1..4 |-> <<apex, base + (i - 1), base + (i % 4)>>])

\* one triangle per ring vertex up to the next ring
BandFaces(base) ==
  Flatten([i \in 1..4 |-> <<base + (i - 1), base + 4 + (i - 1), base + (i % 4)>>])

\* the back of the shell, wound the other way
BackFaces(apex, base) ==
  Flatten([i \in 1..4 |-> <<apex, base + (i % 4), base + (i - 1)>>])

CupIndices == FanFaces(0, 1) \o BandFaces(1) \o BandFaces(5) \o BackFaces(13, 9)

\* an unworn cup: every bearing vertex on the sphere
MeshCup ==
  MkMesh(<<<<0, 0, 0>>>> \o Ring(3, 1) \o Ring(4, 2) \o Ring(5, 5) \o <<<<0, 0, -6>>>>, CupIndices)

\* a worn cup: the second ring lies inside the sphere (radius 3 instead of 4)
MeshWorn ==
  MkMesh(<<<<0, 0, 0>>>> \o Ring(3, 1) \o Ring(3, 2) \o Ring(5, 5) \o <<<<0, 0, -6>>>>, CupIndices)

\* a malformed cup: one more face, with a corner past the last vertex
MeshBad == MkMesh(MeshCup.positions, CupIndices \o <<1, 2, 14>>)

\* a mesh without vertices or faces
MeshEmpty == MkMesh(<<>>, <<>>)

(***************************************************************************)
(* The inputs the pipeline is driven with                                  *)
(***************************************************************************)
InputMeshes == {MeshCup, MeshWorn, MeshBad, MeshEmpty}

\* rimTrimPercent, geodesicCount and thresholdMicrons of the AnalysisParams used
Percents == {7}

GeodesicCounts == {1, 3}

Thresholds == {1, 1000}

(***************************************************************************)
(* WearAnalysisPipeline                                                    *)
(*                                                                         *)
(* A stage method is an operator from the pipeline state (and the          *)
(* AnalysisResults objects, which stepComputeVolumes changes in place) to  *)
(* what the call did: ok or the error thrown, the state it left, and the   *)
(* progress events it emitted.                                             *)
(***************************************************************************)
InitialState ==
  [originalMesh |-> Null, separation |-> Null, trimResult |-> Null, workingMesh |-> Null,
   graph |-> Null, sphereFit |-> Null, ellipsoidFit |-> Null, poleVertex |-> 0,
   polePosition |-> Null, geodesics |-> <<>>, vertexDeviations |-> Null, results |-> Null]

NoMeshData == "No mesh data loaded"
RunSeparationFirst == "Run face separation first"
NoWorkingMesh == "No working mesh available"
RunSphereFitFirst == "Run sphere fit first"
RunSeparationBeforeGeodesics == "Run separation first"
RunDeviationAnalysisFirst == "Run deviation analysis first"
MissingData == "Missing data"

\* the errors thrown by the checks at the head of the stage methods
PreconditionErrors ==
  {NoMeshData, RunSeparationFirst, NoWorkingMesh, RunSphereFitFirst,
   RunSeparationBeforeGeodesics, RunDeviationAnalysisFirst, MissingData}

Threw(s, msg) == [ok |-> FALSE, error |-> msg, state |-> s, events |-> <<>>]

Returned(s) == [ok |-> TRUE, error |-> "", state |-> s, events |-> <<>>]

\* this.progress(stage, progress, message): the message is left out
Event(stage, progress) == [stage |-> stage, progress |-> progress]

\* stepSeparateFaces(meshData?)
StepSeparateFaces(s, meshData) ==
  LET data == IF meshData # Null THEN meshData ELSE s.originalMesh
  IN  IF data = Null THEN Threw(s, NoMeshData)
      ELSE Returned([s EXCEPT !.separation = Some(SeparateFaces(Val(data)))])

\* a stepTrimRim that clears the working mesh before it checks the separation
StepTrimRimClearing(s, rimPercent) ==
  IF s.separation = Null
  THEN Threw([s EXCEPT !.trimResult = Null, !.workingMesh = Null, !.poleVertex = 1],
             RunSeparationFirst)
  ELSE Bind(TrimRim(Val(s.separation).inner, Val(s.separation).cupAxis, rimPercent),
            LAMBDA t : Returned([s EXCEPT !.trimResult = Some(t), !.workingMesh = Some(t.mesh)]))

\* stepTrimRim(rimPercent)
StepTrimRim(s, rimPercent) ==
  IF s.separation = Null THEN Threw(s, RunSeparationFirst)
  ELSE Bind(TrimRim(Val(s.separation).inner, Val(s.separation).cupAxis, rimPercent),
            LAMBDA t : Returned([s EXCEPT !.trimResult = Some(t), !.workingMesh = Some(t.mesh)]))

\* stepFitSphere()
StepFitSphere(s, lib) ==
  IF s.workingMesh = Null THEN Threw(s, NoWorkingMesh)
  ELSE Bind(FitSphereRobust(Val(s.workingMesh).positions, lib),
            LAMBDA r : IF r.ok THEN Returned([s EXCEPT !.sphereFit = Some(r.fit)])
                       ELSE Threw(s, r.error))

\* stepFitEllipsoid()
StepFitEllipsoid(s, lib) ==
  IF s.workingMesh = Null THEN Threw(s, NoWorkingMesh)
  ELSE Bind(FitEllipsoid(Val(s.workingMesh).positions, lib),
            LAMBDA r : IF r.ok THEN Returned([s EXCEPT !.ellipsoidFit = Some(r.fit)])
                       ELSE Threw(s, r.error))

\* the fractions passed to this.progress by runFullAnalysis
ProgressSeparating == DRatio(0, 1)
ProgressTrimming == DRatio(1, 10)
ProgressFitting == DRatio(2, 10)
ProgressEllipsoid == DRatio(25, 100)
ProgressGeodesics == DRatio(3, 10)
ProgressAnalyzing == DRatio(85, 100)
ProgressVolumes == DRatio(92, 100)
ProgressComplete == DInt(1)

\* 0.3 + progress * 0.55 for progress = (g + 1) / geodesicCount, g = 0, 1, ...
MeridianProgress ==
  [n \in GeodesicCounts |->
     [g \in 1..n |-> DAdd(DRatio(3, 10), DMul(DRatio(g, n), DRatio(55, 100)))]]

\* stepComputeGeodesicsAsync up to the setTimeout: the checks, the graph, the
\* pole, and the callback scheduled with what it closes over
BeginGeodesics(s, geodesicCount) ==
  IF s.workingMesh = Null THEN Threw(s, NoWorkingMesh)
  ELSE IF s.sphereFit = Null THEN Threw(s, RunSphereFitFirst)
  ELSE IF s.separation = Null THEN Threw(s, RunSeparationBeforeGeodesics)
  ELSE LET mesh   == Val(s.workingMesh)
           center == Val(s.sphereFit).center
           axis   == Val(s.separation).cupAxis
           built  == MeshGraphBuild(mesh.positions, mesh.indices, mesh.vertexCount)
           pole   == FindPoleVertex(mesh.positions, mesh.vertexCount, center, axis)
       IN  IF ~built.ok
           THEN [ok |-> FALSE, error |-> built.error, state |-> s,
                 events |-> <<Event("geodesics", ProgressGeodesics)>>]
           ELSE [ok |-> TRUE, error |-> "",
                 state |-> [s EXCEPT !.graph = Some(built.graph), !.poleVertex = pole,
                                     !.polePosition = Some(PosAt(mesh.positions, pole))],
                 events |-> <<Event("geodesics", ProgressGeodesics)>>,
                 timer |-> [mesh |-> mesh, sphereCenter |-> center, cupAxis |-> axis,
                            geodesicCount |-> geodesicCount]]

\* the setTimeout callback and the assignment of what it resolves with: the
\* graph and the pole are read from the state when the callback runs
FinishGeodesics(s, timer) ==
  [state  |-> [s EXCEPT !.geodesics =
                 ComputeGeodesics(timer.mesh.positions, timer.mesh.vertexCount, Val(s.graph),
                                  s.poleVertex, timer.sphereCenter, timer.cupAxis,
                                  timer.geodesicCount)],
   events |-> [g \in 1..timer.geodesicCount |->
                 Event("geodesics", MeridianProgress[timer.geodesicCount][g])]]

\* a stepAnalyzeDeviations that treats the absence of anomalies as an error
StepAnalyzeDeviationsRaising(s, objs, thresholdMicrons) ==
  IF s.workingMesh = Null THEN Threw(s, NoWorkingMesh) @@ [objs |-> objs]
  ELSE IF s.sphereFit = Null THEN Threw(s, RunSphereFitFirst) @@ [objs |-> objs]
  ELSE LET mesh == Val(s.workingMesh)
           results(dev, clusters) ==
             [sphereFit |-> Val(s.sphereFit), ellipsoidFit |-> s.ellipsoidFit,
              geodesics |-> s.geodesics, geodesicCount |-> Len(s.geodesics),
              totalAnomalyPoints |-> Len(dev.anomalyPoints),
              bumpClusters |-> OfType(clusters, "bump"),
              dipClusters |-> OfType(clusters, "dip"),
              primaryWearZone |-> FindPrimaryWearZone(clusters),
              totalBumpVolume |-> 0, totalDipVolume |-> 0, totalWearVolume |-> 0,
              wearVector |-> Null, processingTimeMs |-> 0,
              vertexCount |-> mesh.vertexCount, faceCount |-> mesh.faceCount]
       IN  Bind(AnalyzeDeviations(mesh.positions, mesh.vertexCount, s.geodesics,
                                  Val(s.sphereFit), thresholdMicrons), LAMBDA dev :
           IF dev.anomalyPoints = <<>>
           THEN Threw([s EXCEPT !.vertexDeviations = Some(dev.vertexDeviations)],
                      "No anomalies found") @@ [objs |-> objs]
           ELSE
           Bind(ClusterAnomalies(dev.anomalyPoints, Eps, MinPoints), LAMBDA clusters :
             Returned([s EXCEPT !.vertexDeviations = Some(dev.vertexDeviations),
                                !.results = Some(Len(objs) + 1)])
               @@ [objs |-> Append(objs, results(dev, clusters))]))

\* stepAnalyzeDeviations(thresholdMicrons): a new AnalysisResults object
StepAnalyzeDeviations(s, objs, thresholdMicrons) ==
  IF s.workingMesh = Null THEN Threw(s, NoWorkingMesh) @@ [objs |-> objs]
  ELSE IF s.sphereFit = Null THEN Threw(s, RunSphereFitFirst) @@ [objs |-> objs]
  ELSE LET mesh == Val(s.workingMesh)
           results(dev, clusters) ==
             [sphereFit |-> Val(s.sphereFit), ellipsoidFit |-> s.ellipsoidFit,
              geodesics |-> s.geodesics, geodesicCount |-> Len(s.geodesics),
              totalAnomalyPoints |-> Len(dev.anomalyPoints),
              bumpClusters |-> OfType(clusters, "bump"),
              dipClusters |-> OfType(clusters, "dip"),
              primaryWearZone |-> FindPrimaryWearZone(clusters),
              totalBumpVolume |-> 0, totalDipVolume |-> 0, totalWearVolume |-> 0,
              wearVector |-> Null, processingTimeMs |-> 0,
              vertexCount |-> mesh.vertexCount, faceCount |-> mesh.faceCount]
       IN  Bind(AnalyzeDeviations(mesh.positions, mesh.vertexCount, s.geodesics,
                                  Val(s.sphereFit), thresholdMicrons), LAMBDA dev :
           Bind(ClusterAnomalies(dev.anomalyPoints, Eps, MinPoints), LAMBDA clusters :
             Returned([s EXCEPT !.vertexDeviations = Some(dev.vertexDeviations),
                                !.results = Some(Len(objs) + 1)])
               @@ [objs |-> Append(objs, results(dev, clusters))]))

\* the cluster with the given id
ClusterById(clusters, id) == clusters[CHOOSE k \in 1..Len(clusters) : clusters[k].id = id]

\* stepComputeVolumes(thresholdMicrons, density): writes into the results
\* object and into its clusters (the masses computed from density are dropped)
StepComputeVolumes(s, objs, thresholdMicrons) ==
  IF s.results = Null THEN Threw(s, RunDeviationAnalysisFirst) @@ [objs |-> objs]
  ELSE IF s.workingMesh = Null \/ s.sphereFit = Null \/ s.vertexDeviations = Null
    THEN Threw(s, MissingData) @@ [objs |-> objs]
  ELSE LET id  == Val(s.results)
           res == objs[id]
           all == res.bumpClusters \o res.dipClusters
           vol(v, c) == v.clusterVolumes[CHOOSE k \in 1..Len(all) : all[k].id = c.id]
           wear == IF res.primaryWearZone # Null /\ s.polePosition # Null /\ s.separation # Null
                   THEN Some(ComputeWearVector(ClusterById(all, Val(res.primaryWearZone)),
                                               Val(s.polePosition), Val(s.separation).cupAxis))
                   ELSE res.wearVector
       IN  Bind(ComputeDefectVolumes(Val(s.workingMesh), Val(s.sphereFit),
                                     Val(s.vertexDeviations), all, thresholdMicrons), LAMBDA v :
             Returned(s) @@
               [objs |-> [objs EXCEPT ![id] =
                  [res EXCEPT
                     !.bumpClusters = [k \in 1..Len(res.bumpClusters) |->
                        [res.bumpClusters[k] EXCEPT !.volume = vol(v, res.bumpClusters[k])]],
                     !.dipClusters = [k \in 1..Len(res.dipClusters) |->
                        [res.dipClusters[k] EXCEPT !.volume = vol(v, res.dipClusters[k])]],
                     !.totalBumpVolume = v.totalBumpVolume,
                     !.totalDipVolume = v.totalDipVolume,
                     !.totalWearVolume = v.totalWearVolume,
                     !.wearVector = wear]]])

\* the stages of runFullAnalysis, in its order
StageOrder ==
  <<"Separate", "Trim", "FitSphere", "FitEllipsoid", "Geodesics", "AnalyzeDeviations",
    "ComputeVolumes">>

\* the trace of a run that finished stages 1..k-1 and started stage k
\* (and finished it, if finished)
StageTrace(k, finished) ==
  Flatten([i \in 1..k |->
             IF i < k \/ finished THEN <<<<StageOrder[i], "start">>, <<StageOrder[i], "end">>>>
             ELSE <<<<StageOrder[i], "start">>>>])

\* what performance.now() measured, in milliseconds
ProcessingTimeMs == 1

\* runFullAnalysis(meshData, params) up to the await: the error that rejected
\* the promise, or the callback it waits for
RunBegin(s, meshData, runParams, lib) ==
  LET e1 == <<Event("separating", ProgressSeparating)>>
      e2 == Append(e1, Event("trimming", ProgressTrimming))
      e3 == Append(e2, Event("fitting", ProgressFitting))
      e4 == Append(e3, Event("fitting", ProgressEllipsoid))
      e5 == Append(e4, Event("geodesics", ProgressGeodesics))
      stop(r, e, k) == [ok |-> FALSE, error |-> r.error, state |-> r.state, events |-> e,
                        stages |-> StageTrace(k, FALSE)]
  IN  Bind(StepSeparateFaces([s EXCEPT !.originalMesh = Some(meshData)], Some(meshData)),
           LAMBDA r1 : IF ~r1.ok THEN stop(r1, e1, 1) ELSE
      Bind(StepTrimRim(r1.state, runParams.rimTrimPercent),
           LAMBDA r2 : IF ~r2.ok THEN stop(r2, e2, 2) ELSE
      Bind(StepFitSphere(r2.state, lib),
           LAMBDA r3 : IF ~r3.ok THEN stop(r3, e3, 3) ELSE
      Bind(StepFitEllipsoid(r3.state, lib),
           LAMBDA r4 : IF ~r4.ok THEN stop(r4, e4, 4) ELSE
      Bind(BeginGeodesics(r4.state, runParams.geodesicCount),
           LAMBDA r5 : IF ~r5.ok THEN stop(r5, e5 \o r5.events, 5) ELSE
             [ok |-> TRUE, error |-> "", state |-> r5.state, events |-> e5 \o r5.events,
              stages |-> StageTrace(5, FALSE), timer |-> r5.timer])))))

\* a run that resolves after stepAnalyzeDeviations, without stepComputeVolumes
RunFinishSkippingVolumes(s, objs, timer, runParams) ==
  Bind(FinishGeodesics(s, timer), LAMBDA g :
  Bind(StepAnalyzeDeviations(g.state, objs, runParams.thresholdMicrons), LAMBDA a :
    LET e6 == Append(g.events, Event("analyzing", ProgressAnalyzing))
    IN  IF ~a.ok THEN [ok |-> FALSE, error |-> a.error, state |-> a.state, objs |-> a.objs,
                       events |-> e6, stages |-> StageTrace(6, FALSE), returned |-> Null]
        ELSE [ok |-> TRUE, error |-> "", state |-> a.state,
              objs |-> [a.objs EXCEPT ![Val(a.state.results)].processingTimeMs = ProcessingTimeMs],
              events |-> Append(e6, Event("complete", ProgressComplete)),
              stages |-> StageTrace(6, TRUE), returned |-> a.state.results]))

\* runFullAnalysis from the callback on: the geodesics, the last two stages,
\* the processing time, and the results object it resolves with
RunFinish(s, objs, timer, runParams) ==
  Bind(FinishGeodesics(s, timer), LAMBDA g :
  Bind(StepAnalyzeDeviations(g.state, objs, runParams.thresholdMicrons), LAMBDA a :
    LET e6 == Append(g.events, Event("analyzing", ProgressAnalyzing))
        e7 == Append(e6, Event("volumes", ProgressVolumes))
    IN  IF ~a.ok THEN [ok |-> FALSE, error |-> a.error, state |-> a.state, objs |-> a.objs,
                       events |-> e6, stages |-> StageTrace(6, FALSE), returned |-> Null]
        ELSE
  Bind(StepComputeVolumes(a.state, a.objs, runParams.thresholdMicrons), LAMBDA v :
    IF ~v.ok THEN [ok |-> FALSE, error |-> v.error, state |-> v.state, objs |-> v.objs,
                   events |-> e7, stages |-> StageTrace(7, FALSE), returned |-> Null]
    ELSE [ok |-> TRUE, error |-> "", state |-> v.state,
          objs |-> [v.objs EXCEPT ![Val(v.state.results)].processingTimeMs = ProcessingTimeMs],
          events |-> Append(e7, Event("complete", ProgressComplete)),
          stages |-> StageTrace(7, TRUE), returned |-> v.state.results])))

(***************************************************************************)
(* The onProgress callback given to the constructor.  A callback is the    *)
(* set of progress reports at which it raises; the callbacks examined      *)
(* raise at no report, at the first report of runFullAnalysis, at the      *)
(* reports made from the setTimeout callback, or at the last report.       *)
(***************************************************************************)
NeverRaises == {}

RaisesAtSeparating == {Event("separating", ProgressSeparating)}

RaisesAtMeridian ==
  UNION {{Event("geodesics", MeridianProgress[n][g]) : g \in 1..n} : n \in GeodesicCounts}

RaisesAtComplete == {Event("complete", ProgressComplete)}

Callbacks == {NeverRaises, RaisesAtSeparating, RaisesAtMeridian, RaisesAtComplete}

\* what the callback throws
CallbackError == "onProgress raised"

\* this.progress(...) with callback cb given the report e raises
Raises(cb, e) == e \in cb

\* stepComputeGeodesicsAsync up to the setTimeout, with callback cb: the
\* report is made after the three checks and before the graph is built
BeginGeodesicsWith(cb, s, geodesicCount) ==
  IF /\ s.workingMesh # Null /\ s.sphereFit # Null /\ s.separation # Null
     /\ Raises(cb, Event("geodesics", ProgressGeodesics))
  THEN [ok |-> FALSE, error |-> CallbackError, state |-> s,
        events |-> <<Event("geodesics", ProgressGeodesics)>>]
  ELSE BeginGeodesics(s, geodesicCount)

\* runFullAnalysis up to the await, with callback cb: the first report is
\* made before anything is written
RunBeginWith(cb, s, meshData, runParams, lib) ==
  IF Raises(cb, Event("separating", ProgressSeparating))
  THEN [ok |-> FALSE, error |-> CallbackError, state |-> s,
        events |-> <<Event("separating", ProgressSeparating)>>, stages |-> <<>>]
  ELSE RunBegin(s, meshData, runParams, lib)

\* the setTimeout callback with callback cb: computeGeodesics reports after
\* every meridian; a report that raises ends the callback before resolve, and
\* nothing is assigned
FinishGeodesicsWith(cb, s, timer) ==
  LET reports == [g \in 1..timer.geodesicCount |->
                    Event("geodesics", MeridianProgress[timer.geodesicCount][g])]
      raising == {g \in 1..timer.geodesicCount : Raises(cb, reports[g])}
  IN  IF raising # {}
      THEN [raised |-> TRUE, state |-> s,
            events |-> SubSeq(reports, 1, CHOOSE g \in raising : \A h \in raising : g <= h)]
      ELSE FinishGeodesics(s, timer) @@ [raised |-> FALSE]

\* runFullAnalysis from the callback on, with callback cb: a raise at the last
\* report rejects the promise after every stage has written
RunFinishWith(cb, s, objs, timer, runParams) ==
  Bind(FinishGeodesicsWith(cb, s, timer), LAMBDA g :
    IF g.raised THEN g
    ELSE Bind(RunFinish(s, objs, timer, runParams), LAMBDA r :
           IF r.ok /\ Raises(cb, Event("complete", ProgressComplete))
           THEN [raised |-> FALSE, ok |-> FALSE, error |-> CallbackError, state |-> r.state,
                 objs |-> r.objs, events |-> r.events, stages |-> r.stages,
                 returned |-> Null]
           ELSE r @@ [raised |-> FALSE]))

(***************************************************************************)
(* State                                                                   *)
(***************************************************************************)
VARIABLES
  gmesh,      \* SpecGraph: the arguments of the last MeshGraph.build call
  gres,       \* SpecGraph: what that call returned or threw
  lib,        \* the installed ml-matrix: how it treats a matrix without rows
  mesh,       \* the MeshData the caller has (the STL file the user loads)
  params,     \* the AnalysisParams
  pipes,      \* the state of every WearAnalysisPipeline constructed so far
  objs,       \* the AnalysisResults objects on the heap; state.results refers to one
  timers,     \* the setTimeout(0) callbacks waiting, oldest first
  calls,      \* how many calls the caller has made
  last,       \* the last call that finished or was suspended: what it did
  published,  \* the results handed to consumers, with their value at that time
  app,        \* the App's fields
  volumeWrites, \* per results object: the computeDefectVolumes calls that assigned its clusters' volumes
  onProgress, \* per pipeline: the progress reports at which its onProgress callback raises
  promises,   \* the promises returned by the async methods, in call order: their status
  arg,        \* the arguments of the function applied on its own
  ret         \* what that function returned

graphVars == <<gmesh, gres>>

pipeVars == <<lib, mesh, params, pipes, objs, timers, calls, last, published, app, volumeWrites,
              onProgress, promises>>

vars == <<gmesh, gres, lib, mesh, params, pipes, objs, timers, calls, last, published, app,
          volumeWrites, onProgress, promises, arg, ret>>

\* calls made by the caller in one behaviour
MaxCalls == 3

\* the App after construction
AppInit == [pipeline |-> Null, currentMeshData |-> Null, currentResults |-> Null, isRunning |-> FALSE]

AnalysisParams(rimTrimPercent, geodesicCount, thresholdMicrons) ==
  [rimTrimPercent |-> rimTrimPercent, geodesicCount |-> geodesicCount,
   thresholdMicrons |-> thresholdMicrons]

\* the runs examined: the installed library, the mesh and the parameters
Scenarios ==
  {<<"acceptsEmpty", MeshWorn, AnalysisParams(7, 3, 1)>>,
   <<"acceptsEmpty", MeshCup, AnalysisParams(7, 1, 1)>>,
   <<"rejectsEmpty", MeshBad, AnalysisParams(7, 1, 1)>>,
   <<"acceptsEmpty", MeshEmpty, AnalysisParams(7, 1, 1)>>,
   <<"rejectsEmpty", MeshEmpty, AnalysisParams(7, 1, 1)>>}

\* no pipeline, no App activity
PipelineIdle ==
  /\ lib = "acceptsEmpty"
  /\ mesh = MeshEmpty
  /\ params = AnalysisParams(7, 1, 1)
  /\ pipes = <<>>
  /\ objs = <<>>
  /\ timers = <<>>
  /\ calls = 0
  /\ last = Null
  /\ published = <<>>
  /\ app = AppInit
  /\ volumeWrites = <<>>
  /\ onProgress = <<>>
  /\ promises = <<>>

(***************************************************************************)
(* SpecGraph: MeshGraph.build on every small index buffer                  *)
(***************************************************************************)
\* vertex i of the test layouts: distinct points, none collinear with two others
GraphPos(layout, i) ==
  IF layout = 1 THEN <<3 * i, 4 * (i % 2), i * i>> ELSE <<i * i, 2 * i, 5 * (i % 3)>>

\* all flat index buffers of at most MaxF faces over the indices 0..top
IndexBuffers(top) == UNION {[1..(3 * f) -> 0..top] : f \in 0..MaxF}

\* the meshes handed to build: indices in range, or one past the last vertex
GraphInputs ==
  {[positions |-> [i \in 1..vc |-> GraphPos(layout, i - 1)], indices |-> ix, vertexCount |-> vc] :
     vc \in 0..MaxV, layout \in 1..2, ix \in IndexBuffers(MaxV)}

InitGraph ==
  /\ gmesh \in {Some(m) : m \in GraphInputs}
  /\ gres = Null
  /\ arg = Null
  /\ ret = Null
  /\ PipelineIdle

\* a caller builds the graph of the mesh
GraphBuild ==
  /\ gres = Null
  /\ gres' = Some(MeshGraphBuild(Val(gmesh).positions, Val(gmesh).indices, Val(gmesh).vertexCount))
  /\ UNCHANGED <<gmesh, arg, ret, pipeVars>>

NextGraph == GraphBuild

SpecGraph == InitGraph /\ [][NextGraph]_vars

(***************************************************************************)
(* Claims on MeshGraph (checked under SpecGraph)                           *)
(***************************************************************************)
\* every index of the buffer handed to build is < vertexCount
GraphInputValid ==
  \A k \in 1..Len(Val(gmesh).indices) : Val(gmesh).indices[k] < Val(gmesh).vertexCount

\* the neighbour list of vertex u (0-based) in graph g
NbrList(g, u) == [k \in 1..Len(GetNeighbors(g, u)) |-> GetNeighbors(g, u)[k].neighbor]

\* the weights stored in u's list for neighbour v
NbrWeights(g, u, v) ==
  {GetNeighbors(g, u)[k].weight : k \in {k \in 1..Len(GetNeighbors(g, u)) : GetNeighbors(g, u)[k].neighbor = v}}

\* some triangle has u at one corner and v at another corner
ShareTriangle(indices, u, v) ==
  \E f \in 0..(Len(indices) \div 3 - 1) :
    \E a, b \in 1..3 : a # b /\ FaceOf(indices, f)[a] = u /\ FaceOf(indices, f)[b] = v

\* C10: for a mesh whose indices are all < vertexCount, build returns a graph
\* whose offsets array has vertexCount+1 non-decreasing entries ending at the
\* number of stored edges, whose neighbour lists hold no duplicate, are
\* symmetric and list v under u exactly when a triangle has u and v at two
\* of its corners, and whose weight for (u,v) equals the weight for (v,u).
C10_GraphWellFormed ==
  (gres # Null /\ GraphInputValid) =>
    /\ Val(gres).ok
    /\ LET g  == Val(gres).graph
           vc == Val(gmesh).vertexCount
           V  == 0..(vc - 1)
       IN  /\ g.vertexCount = vc
           /\ Len(g.offsets) = vc + 1
           /\ \A i \in 1..vc : g.offsets[i] <= g.offsets[i + 1]
           /\ g.offsets[vc + 1] = Len(g.neighbors)
           /\ Len(g.weights) = Len(g.neighbors)
           /\ \A u \in V : Cardinality(SeqToSet(NbrList(g, u))) = Len(NbrList(g, u))
           /\ \A u \in V : SeqToSet(NbrList(g, u)) \subseteq V
           /\ \A u, v \in V :
                /\ (v \in SeqToSet(NbrList(g, u))) = (u \in SeqToSet(NbrList(g, v)))
                /\ (v \in SeqToSet(NbrList(g, u))) = ShareTriangle(Val(gmesh).indices, u, v)
                /\ NbrWeights(g, u, v) = NbrWeights(g, v, u)
                /\ Cardinality(NbrWeights(g, u, v)) <= 1

\* C10 witness: a graph was built from two faces that share vertices, so that
\* deduplication and symmetry were exercised (fewer than 12 stored edges)
C10_Witness ==
  /\ gres # Null
  /\ GraphInputValid
  /\ Val(gres).ok
  /\ Len(Val(gmesh).indices) = 6
  /\ Val(gmesh).vertexCount = 3
  /\ Len(Val(gres).graph.neighbors) = 6
  /\ \A f \in 0..1 : Cardinality(SeqToSet(FaceOf(Val(gmesh).indices, f))) = 3


(***************************************************************************)
(* Spec: a caller drives one WearAnalysisPipeline through its public       *)
(* methods, in any order, while its timers fire in between                 *)
(***************************************************************************)
\* a call on pipeline p is suspended at its await
Pending(p) == \E k \in 1..Len(timers) : timers[k].pipe = p

\* the onProgress events reach the log of every runFullAnalysis suspended on p
Emit(ts, p, events) ==
  [k \in 1..Len(ts) |->
     IF ts[k].pipe = p /\ ts[k].run THEN [ts[k] EXCEPT !.events = @ \o events] ELSE ts[k]]

\* what is remembered of the call that made the last step: the method, the
\* pipeline, how it ended, the state and the results objects before the call,
\* the progress events and stage marks of the call, what it returned, and
\* whether another call on the pipeline was suspended when it was made
CallRecord(op, p, outcome, error, pre, preObjs, events, stages, returned, whilePending) ==
  [op |-> op, pipe |-> p, outcome |-> outcome, error |-> error, pre |-> pre,
   preObjs |-> preObjs, events |-> events, stages |-> stages, returned |-> returned,
   whilePending |-> whilePending]

\* the counts of volume assignments once the results objects are objsAfter
\* and computeDefectVolumes has assigned the volumes of the clusters of
\* object id (0: of none)
VolumesAssigned(writes, objsAfter, id) ==
  [i \in 1..Len(objsAfter) |->
     (IF i <= Len(writes) THEN writes[i] ELSE 0) + (IF i = id THEN 1 ELSE 0)]

\* a synchronous stage method was called on pipeline p and did r
SyncCall(op, p, r, objsAfter) ==
  /\ calls < MaxCalls
  /\ calls' = calls + 1
  /\ pipes' = [pipes EXCEPT ![p] = r.state]
  /\ objs' = objsAfter
  /\ timers' = Emit(timers, p, r.events)
  /\ last' = Some(CallRecord(op, p, IF r.ok THEN "returned" ELSE "threw", r.error,
                             pipes[p], objs, r.events, <<>>, Null, Pending(p)))
  /\ volumeWrites' = IF op = "stepComputeVolumes" /\ r.ok
                     THEN VolumesAssigned(volumeWrites, objsAfter, Val(r.state.results))
                     ELSE VolumesAssigned(volumeWrites, objsAfter, 0)
  /\ UNCHANGED <<gmesh, gres, arg, ret, lib, mesh, params, published, app, onProgress, promises>>

\* the callback scheduled by a call on pipeline p
Timer(p, op, run, r, events, stages, whilePending) ==
  [pipe |-> p, op |-> op, run |-> run, mesh |-> r.timer.mesh,
   sphereCenter |-> r.timer.sphereCenter, cupAxis |-> r.timer.cupAxis,
   geodesicCount |-> r.timer.geodesicCount, pre |-> pipes[p], preObjs |-> objs,
   events |-> events, stages |-> stages, whilePending |-> whilePending,
   promise |-> Len(promises) + 1]

Init ==
  /\ gmesh = Null
  /\ gres = Null
  /\ \E sc \in Scenarios : lib = sc[1] /\ mesh = sc[2] /\ params = sc[3]
  /\ pipes = <<InitialState>>
  /\ objs = <<>>
  /\ timers = <<>>
  /\ calls = 0
  /\ last = Null
  /\ published = <<>>
  /\ app = AppInit
  /\ volumeWrites = <<>>
  /\ onProgress = <<NeverRaises>>
  /\ promises = <<>>
  /\ arg = Null
  /\ ret = Null

CallStepSeparateFaces ==
  \E meshData \in {Null, Some(mesh)} :
    \E r \in {StepSeparateFaces(pipes[1], meshData)} : SyncCall("stepSeparateFaces", 1, r, objs)

CallStepTrimRim ==
  \E r \in {StepTrimRim(pipes[1], params.rimTrimPercent)} : SyncCall("stepTrimRim", 1, r, objs)

CallStepFitSphere ==
  \E r \in {StepFitSphere(pipes[1], lib)} : SyncCall("stepFitSphere", 1, r, objs)

CallStepFitEllipsoid ==
  \E r \in {StepFitEllipsoid(pipes[1], lib)} : SyncCall("stepFitEllipsoid", 1, r, objs)

CallStepAnalyzeDeviations ==
  \E thresholdMicrons \in Thresholds :
    \E r \in {StepAnalyzeDeviations(pipes[1], objs, thresholdMicrons)} :
      SyncCall("stepAnalyzeDeviations", 1, r, r.objs)

CallStepComputeVolumes ==
  \E thresholdMicrons \in Thresholds :
    \E r \in {StepComputeVolumes(pipes[1], objs, thresholdMicrons)} :
      SyncCall("stepComputeVolumes", 1, r, r.objs)

\* an async method called on pipeline p did r before its first await: it is
\* suspended with a timer, or its promise is already rejected
AsyncCall(op, p, run, r, stages) ==
  /\ calls < MaxCalls
  /\ calls' = calls + 1
  /\ pipes' = [pipes EXCEPT ![p] = r.state]
  /\ timers' = IF r.ok
               THEN Append(Emit(timers, p, r.events),
                           Timer(p, op, run, r, r.events, stages, Pending(p)))
               ELSE Emit(timers, p, r.events)
  /\ last' = Some(CallRecord(op, p, IF r.ok THEN "pending" ELSE "rejected", r.error,
                             pipes[p], objs, r.events, stages, Null, Pending(p)))
  /\ promises' = Append(promises, IF r.ok THEN "pending" ELSE "rejected")
  /\ UNCHANGED <<gmesh, gres, arg, ret, lib, mesh, params, objs, published, app, volumeWrites,
                 onProgress>>

CallStepComputeGeodesicsAsync ==
  \E r \in {BeginGeodesicsWith(onProgress[1], pipes[1], params.geodesicCount)} :
    AsyncCall("stepComputeGeodesicsAsync", 1, FALSE, r, <<>>)

CallRunFullAnalysis ==
  \E r \in {RunBeginWith(onProgress[1], pipes[1], mesh, params, lib)} :
    AsyncCall("runFullAnalysis", 1, TRUE, r, r.stages)

\* the oldest timer fired and its callback raised: the promise it was to
\* resolve stays as it is
TimerLost(t, g) ==
  /\ timers' = Emit(Tail(timers), t.pipe, g.events)
  /\ UNCHANGED <<pipes, objs, last, published, volumeWrites, promises>>

\* the oldest timer fires and stepComputeGeodesicsAsync resolves to its caller
ResumeStepGeodesics ==
  /\ timers # <<>>
  /\ ~Head(timers).run
  /\ \E t \in {Head(timers)} :
       \E g \in {FinishGeodesicsWith(onProgress[t.pipe], pipes[t.pipe], t)} :
         IF g.raised THEN TimerLost(t, g)
         ELSE
         /\ pipes' = [pipes EXCEPT ![t.pipe] = g.state]
         /\ timers' = Emit(Tail(timers), t.pipe, g.events)
         /\ last' = Some(CallRecord(t.op, t.pipe, "resolved", "", t.pre, t.preObjs,
                                    t.events \o g.events, <<>>, Null, t.whilePending))
         /\ promises' = [promises EXCEPT ![t.promise] = "resolved"]
         /\ UNCHANGED <<objs, published, volumeWrites>>
  /\ UNCHANGED <<gmesh, gres, arg, ret, lib, mesh, params, calls, app, onProgress>>

\* the oldest timer fires and runFullAnalysis runs to its end
ResumeRunFullAnalysis ==
  /\ timers # <<>>
  /\ Head(timers).run
  /\ \E t \in {Head(timers)} :
       \E r \in {RunFinishWith(onProgress[t.pipe], pipes[t.pipe], objs, t, params)} :
         IF r.raised THEN TimerLost(t, r)
         ELSE
         /\ pipes' = [pipes EXCEPT ![t.pipe] = r.state]
         /\ objs' = r.objs
         /\ timers' = Emit(Tail(timers), t.pipe, r.events)
         /\ last' = Some(CallRecord(t.op, t.pipe, IF r.ok THEN "resolved" ELSE "rejected",
                                    r.error, t.pre, t.preObjs, t.events \o r.events,
                                    r.stages, r.returned, t.whilePending))
         /\ published' = IF r.ok
                         THEN Append(published, [id |-> Val(r.returned),
                                                 snapshot |-> r.objs[Val(r.returned)]])
                         ELSE published
         /\ volumeWrites' = IF r.ok THEN VolumesAssigned(volumeWrites, r.objs, Val(r.returned))
                            ELSE VolumesAssigned(volumeWrites, r.objs, 0)
         /\ promises' = [promises EXCEPT ![t.promise] = IF r.ok THEN "resolved" ELSE "rejected"]
  /\ UNCHANGED <<gmesh, gres, arg, ret, lib, mesh, params, calls, app, onProgress>>

Next ==
  \/ CallStepSeparateFaces
  \/ CallStepTrimRim
  \/ CallStepFitSphere
  \/ CallStepFitEllipsoid
  \/ CallStepComputeGeodesicsAsync
  \/ CallStepAnalyzeDeviations
  \/ CallStepComputeVolumes
  \/ CallRunFullAnalysis
  \/ ResumeStepGeodesics
  \/ ResumeRunFullAnalysis

Spec == Init /\ [][Next]_vars

(***************************************************************************)
(* Claims on the stage methods (checked under Spec)                        *)
(***************************************************************************)
\* the stage methods that have a predecessor
StageMethods ==
  {"stepTrimRim", "stepFitSphere", "stepFitEllipsoid", "stepComputeGeodesicsAsync",
   "stepAnalyzeDeviations", "stepComputeVolumes"}

\* the output of the direct predecessor of stage method op is absent from s
PredecessorAbsent(op, s) ==
  CASE op = "stepTrimRim" -> s.separation = Null
    [] op = "stepFitSphere" -> s.trimResult = Null
    [] op = "stepFitEllipsoid" -> s.sphereFit = Null
    [] op = "stepComputeGeodesicsAsync" -> s.ellipsoidFit = Null
    [] op = "stepAnalyzeDeviations" -> s.graph = Null
    [] op = "stepComputeVolumes" -> s.results = Null
    [] OTHER -> FALSE

\* the call ended with an error
Failed(c) == c.outcome \in {"threw", "rejected"}

\* C1: a stage method called while the output of its direct predecessor is
\* absent fails with one of the precondition errors, and its body does not
\* run (the state is as before the call).
C1_PredecessorRequired ==
  last # Null =>
    LET c == Val(last)
    IN  (c.op \in StageMethods /\ PredecessorAbsent(c.op, c.pre)) =>
          /\ Failed(c)
          /\ c.error \in PreconditionErrors
          /\ pipes[c.pipe] = c.pre
          /\ objs = c.preObjs

\* the call failed before it was suspended, so that no other call ran between
\* its start and its end (a run that fails later has started six stages)
FailedAtOnce(c) == c.outcome = "threw" \/ (c.outcome = "rejected" /\ Len(c.stages) <= 9)

\* C3: when a stage method or runFullAnalysis ends with an error, every field
\* of the pipeline state and every results object has the value it had
\* before the call.
C3_FailedCallAllOrNothing ==
  last # Null =>
    LET c == Val(last)
    IN  FailedAtOnce(c) => pipes[c.pipe] = c.pre /\ objs = c.preObjs

\* the call was refused by the check at the head of a stage method
PreconditionRejected(c) == Failed(c) /\ c.error \in PreconditionErrors

\* every stage succeeds when the caller invokes them in the order of the
\* pipeline, starting from state s with the results objects os
Resequenced(s, os) ==
  Bind(StepSeparateFaces(s, Some(mesh)), LAMBDA r1 : r1.ok /\
  Bind(StepTrimRim(r1.state, params.rimTrimPercent), LAMBDA r2 : r2.ok /\
  Bind(StepFitSphere(r2.state, lib), LAMBDA r3 : r3.ok /\
  Bind(StepFitEllipsoid(r3.state, lib), LAMBDA r4 : r4.ok /\
  Bind(BeginGeodesics(r4.state, params.geodesicCount), LAMBDA r5 : r5.ok /\
  Bind(FinishGeodesics(r5.state, r5.timer), LAMBDA g :
  Bind(StepAnalyzeDeviations(g.state, os, params.thresholdMicrons), LAMBDA a : a.ok /\
    StepComputeVolumes(a.state, a.objs, params.thresholdMicrons).ok)))))))

RunResolved == last # Null /\ Val(last).op = "runFullAnalysis" /\ Val(last).outcome = "resolved"

C6_ProgressMonotone ==
  (RunResolved /\ calls = 1) =>
    LET c == Val(last)
        n == Len(c.events)
    IN  /\ n > 0
        /\ \A k \in 1..n : DLeq(DInt(0), c.events[k].progress) /\ DLeq(c.events[k].progress, DInt(1))
        /\ \A k \in 1..(n - 1) : DLeq(c.events[k].progress, c.events[k + 1].progress)
        /\ c.events[n].progress = DInt(1)
        /\ Len(SelectSeq(c.events, LAMBDA e : e.stage = "geodesics")) = 2 + params.geodesicCount
        /\ Len(pipes[c.pipe].geodesics) = params.geodesicCount

\* C7: a results object that a runFullAnalysis has resolved with keeps, in
\* every later state, the value it had when it was handed over, clusters
\* included, whatever stage methods are called afterwards.
C7_PublishedImmutable ==
  \A k \in 1..Len(published) : objs[published[k].id] = published[k].snapshot

\* the least thresholdMicrons the stage methods are called with
LeastThreshold == CHOOSE t \in Thresholds : \A u \in Thresholds : t <= u

\* no point of the geodesics deviates by more than t micrometres
NoPointExceeds(geodesics, t) ==
  \A g \in 1..Len(geodesics) :
    \A k \in 1..Len(geodesics[g].points) :
      geodesics[g].points[k].deviation <= t /\ -geodesics[g].points[k].deviation <= t

\* the results object is the empty outcome
EmptyOutcome(res) ==
  /\ res.bumpClusters = <<>>
  /\ res.dipClusters = <<>>
  /\ res.totalAnomalyPoints = 0
  /\ res.primaryWearZone = Null
  /\ res.wearVector = Null

IndicesInRange(m) ==
  m.vertexCount > 0 /\ \A k \in 1..Len(m.indices) : m.indices[k] < m.vertexCount

\* C9: a runFullAnalysis given a mesh with a triangle index >= vertexCount, or
\* a mesh without vertices, never resolves with results.
C9_MalformedMeshFatal == RunResolved => IndicesInRange(mesh)

(***************************************************************************)
(* SpecDijkstra: dijkstraDistances on every small weighted graph           *)
(***************************************************************************)
\* vertices of the graphs handed to dijkstraDistances in SpecDijkstra
MaxN == 4

\* the weights an edge of these graphs can have
EdgeWeights == {0, 1, 3}

\* the unordered pairs of the vertices 0..n-1
Pairs(n) == {p \in (0..(n - 1)) \X (0..(n - 1)) : p[1] < p[2]}

\* the weight w gives the edge between u and v, -1 without an edge
WeightOf(w, u, v) == IF u = v THEN -1 ELSE IF u < v THEN w[<<u, v>>] ELSE w[<<v, u>>]

\* the MeshGraph arrays of the undirected graph on 0..n-1 with the edge
\* weights w, neighbours listed in increasing order
CsrGraph(n, w) ==
  LET ns == [i \in 1..n |-> SelectSeq([k \in 1..n |-> k - 1],
                                      LAMBDA v : WeightOf(w, i - 1, v) >= 0)]
  IN  [vertexCount |-> n,
       offsets     |-> Offsets(ns, n),
       neighbors   |-> Flatten(ns),
       weights     |-> Flatten([i \in 1..n |->
                                  [k \in 1..Len(ns[i]) |-> WeightOf(w, i - 1, ns[i][k])]])]

\* the calls examined: a graph, its edge weights, and a source vertex
DijkstraInputs ==
  {[graph |-> CsrGraph(MaxN, w), w |-> w, source |-> source] :
     w \in [Pairs(MaxN) -> EdgeWeights \cup {-1}], source \in 0..(MaxN - 1)}

\* nothing else happens in the specifications of a function applied on its own
Quiet == gmesh = Null /\ gres = Null /\ PipelineIdle

InitDijkstra ==
  /\ arg \in {Some(a) : a \in DijkstraInputs}
  /\ ret = Null
  /\ Quiet

\* a caller computes the distances from the source
CallDijkstraDistances ==
  /\ ret = Null
  /\ ret' = Some(DijkstraDistances(Val(arg).graph, Val(arg).source))
  /\ UNCHANGED <<gmesh, gres, arg, pipeVars>>

NextDijkstra == CallDijkstraDistances

SpecDijkstra == InitDijkstra /\ [][NextDijkstra]_vars

(***************************************************************************)
(* Claims on dijkstraDistances (checked under SpecDijkstra)                *)
(***************************************************************************)
\* the least weight of a path of at most k edges from source to each vertex
\* (Bellman-Ford), Infinity without such a path
RECURSIVE PathWeights(_, _, _, _)
PathWeights(n, w, source, k) ==
  IF k = 0 THEN [v \in 0..(n - 1) |-> IF v = source THEN 0 ELSE Infinity]
  ELSE LET prev == PathWeights(n, w, source, k - 1)
           via(v) == {prev[u] + WeightOf(w, u, v) :
                        u \in {u \in 0..(n - 1) : WeightOf(w, u, v) >= 0 /\ prev[u] < Infinity}}
       IN  [v \in 0..(n - 1) |->
              CHOOSE x \in via(v) \cup {prev[v]} : \A y \in via(v) \cup {prev[v]} : x <= y]

\* the vertices reached from v by following predecessors k times, -1 at the end
RECURSIVE Ancestor(_, _, _)
Ancestor(predecessors, v, k) ==
  IF k = 0 \/ v = -1 THEN v ELSE Ancestor(predecessors, predecessors[v + 1], k - 1)

\* C11: dijkstraDistances returns 0 for the source and the weight of a
\* shortest path for every vertex a path reaches; every reached vertex but the
\* source has a predecessor joined to it by an edge, with
\* distances[v] = distances[pred[v]] + weight(pred[v], v), so that distances do
\* not decrease away from the source, and following predecessors arrives at
\* the source within vertexCount - 1 steps.
C11_ShortestPaths ==
  ret # Null =>
    LET a     == Val(arg)
        n     == a.graph.vertexCount
        dist  == Val(ret).distances
        pred  == Val(ret).predecessors
        least == PathWeights(n, a.w, a.source, n - 1)
    IN  /\ dist[a.source + 1] = 0
        /\ pred[a.source + 1] = -1
        /\ \A v \in 0..(n - 1) : least[v] < Infinity => dist[v + 1] = least[v]
        /\ \A v \in (0..(n - 1)) \ {a.source} :
             least[v] < Infinity =>
               /\ pred[v + 1] \in 0..(n - 1)
               /\ WeightOf(a.w, pred[v + 1], v) >= 0
               /\ dist[v + 1] = dist[pred[v + 1] + 1] + WeightOf(a.w, pred[v + 1], v)
               /\ dist[pred[v + 1] + 1] <= dist[v + 1]
               /\ \E k \in 1..(n - 1) : Ancestor(pred, v, k) = a.source

\* C11 witness: the distances of a graph in which the direct edge from the
\* source to vertex 1 (weight 3) is beaten by a detour over vertices 2 and 3
\* that ends with an edge of weight 0
C11_Witness ==
  /\ ret # Null
  /\ Val(arg).source = 0
  /\ Val(arg).w[<<0, 1>>] = 3
  /\ Val(arg).w[<<1, 3>>] = 0
  /\ Val(ret).distances[2] = 2
  /\ Val(ret).predecessors[2] = 3
  /\ Val(ret).predecessors[4] = 2

(***************************************************************************)
(* SpecGeodesics: computeGeodesics on four vertices of a cup, joined by    *)
(* every possible set of edges                                             *)
(***************************************************************************)
\* the pole of a cup and three vertices of its first ring
GeodesicPositions == <<<<0, 0, 0>>, <<3, 0, 1>>, <<0, 3, 1>>, <<-3, 0, 1>>>>

\* the centre of the sphere through them, in micrometres, and the cup axis
GeodesicCenter == <<0, 0, 500>>

GeodesicAxis == <<0, 0, -1000>>

\* the calls examined: the edges present (each of length 1), the pole vertex
\* handed in, and the number of meridians
GeodesicInputs ==
  {[graph |-> CsrGraph(MaxN, w), w |-> w, source |-> source, geodesicCount |-> count] :
     w \in [Pairs(MaxN) -> {-1, 1}], source \in 0..(MaxN - 1), count \in GeodesicCounts}

InitGeodesics ==
  /\ arg \in {Some(a) : a \in GeodesicInputs}
  /\ ret = Null
  /\ Quiet

\* a caller computes the meridians; the distances are those of its first step
CallComputeGeodesics ==
  /\ ret = Null
  /\ \E a \in {Val(arg)} :
       ret' = Some([dijkstra  |-> DijkstraDistances(a.graph, a.source),
                    geodesics |-> ComputeGeodesics(GeodesicPositions, MaxN, a.graph, a.source,
                                                   GeodesicCenter, GeodesicAxis,
                                                   a.geodesicCount)])
  /\ UNCHANGED <<gmesh, gres, arg, pipeVars>>

NextGeodesics == CallComputeGeodesics

SpecGeodesics == InitGeodesics /\ [][NextGeodesics]_vars

(***************************************************************************)
(* Claims on computeGeodesics (checked under SpecGeodesics)                *)
(***************************************************************************)
\* the vertices joined to the source by a path of edges
Connected(n, w, source) ==
  {v \in 0..(n - 1) : PathWeights(n, w, source, n - 1)[v] < Infinity}

\* the vertices placed in some meridian
InMeridians(geodesics) ==
  UNION {{geodesics[g].points[k].vertexIndex : k \in 1..Len(geodesics[g].points)} :
           g \in 1..Len(geodesics)}

\* C12: after dijkstraDistances a vertex has distance Infinity and
\* predecessor -1 exactly when no path joins it to the source, and
\* computeGeodesics places no such vertex in a meridian.
C12_UnreachableLeftOut ==
  ret # Null =>
    LET a == Val(arg)
        d == Val(ret).dijkstra
    IN  /\ \A v \in 0..(MaxN - 1) :
             (d.distances[v + 1] = Infinity /\ d.predecessors[v + 1] = -1)
               <=> (v \notin Connected(MaxN, a.w, a.source))
        /\ InMeridians(Val(ret).geodesics) \subseteq Connected(MaxN, a.w, a.source)

\* C12 witness: one meridian over a graph in which vertex 3 has no edge; the
\* band of the single meridian spans every longitude, and holds the other three
C12_Witness ==
  /\ ret # Null
  /\ Val(arg).geodesicCount = 1
  /\ Val(arg).source = 0
  /\ Connected(MaxN, Val(arg).w, 0) = {0, 1, 2}
  /\ InMeridians(Val(ret).geodesics) = {0, 1, 2}
  /\ Val(ret).dijkstra.distances[4] = Infinity

(***************************************************************************)
(* SpecMesh: separateFaces and trimRim on well-formed meshes               *)
(***************************************************************************)
\* a tent: four faces around an apex, over a square base of two faces
MeshTent ==
  MkMesh(<<<<0, 0, 4>>, <<2, 0, 0>>, <<0, 2, 0>>, <<-2, 0, 0>>, <<0, -2, 0>>>>,
         FanFaces(0, 1) \o <<1, 3, 2, 1, 4, 3>>)

\* a strip of three triangles climbing in x, y and z
MeshStrip ==
  MkMesh(<<<<0, 0, 0>>, <<2, 0, 1>>, <<1, 2, 2>>, <<3, 2, 3>>, <<2, 4, 5>>>>,
         <<0, 1, 2, 1, 3, 2, 2, 3, 4>>)

\* a plate of one face below and a plate of two faces above, facing each
\* other, and a third plate further below that looks away from them
MeshPlates ==
  MkMesh(<<<<0, 0, -2>>, <<2, 0, -2>>, <<0, 2, -2>>,
           <<0, 0, 2>>, <<0, 2, 2>>, <<2, 0, 2>>, <<2, 2, 2>>,
           <<0, 0, -4>>, <<0, 2, -4>>, <<2, 0, -4>>>>,
         <<0, 1, 2, 3, 4, 5, 6, 5, 4, 7, 8, 9>>)

\* a tetrahedron, every face looking away from the centroid
MeshTetra ==
  MkMesh(<<<<0, 0, 0>>, <<2, 0, 0>>, <<0, 2, 0>>, <<0, 0, 2>>>>,
         <<0, 2, 1, 0, 1, 3, 0, 3, 2, 1, 2, 3>>)

\* the meshes examined: every index in range, every vertex used by a face,
\* no two vertices at one position
WellFormedMeshes == {MeshCup, MeshWorn, MeshTent, MeshStrip, MeshPlates, MeshTetra}

\* the cup axes examined, in thousandths
TrimAxes ==
  {<<0, 0, 1000>>, <<0, 0, -1000>>, <<1000, 0, 0>>, <<0, -1000, 0>>, <<577, 577, 577>>}

\* the rim percentages examined
TrimPercents == {0, 5, 7, 30, 50, 100}

MeshInputs ==
  {[op |-> "trimRim", mesh |-> m, cupAxis |-> axis, percent |-> percent] :
     m \in WellFormedMeshes, axis \in TrimAxes, percent \in TrimPercents}
  \cup {[op |-> "separateFaces", mesh |-> m, cupAxis |-> <<0, 0, 0>>, percent |-> 0] :
          m \in WellFormedMeshes}

InitMesh ==
  /\ arg \in {Some(a) : a \in MeshInputs}
  /\ ret = Null
  /\ Quiet

CallTrimRim ==
  /\ ret = Null
  /\ Val(arg).op = "trimRim"
  /\ \E a \in {Val(arg)} : ret' = Some(TrimRim(a.mesh, a.cupAxis, a.percent))
  /\ UNCHANGED <<gmesh, gres, arg, pipeVars>>

CallSeparateFaces ==
  /\ ret = Null
  /\ Val(arg).op = "separateFaces"
  /\ \E a \in {Val(arg)} : ret' = Some(SeparateFaces(a.mesh))
  /\ UNCHANGED <<gmesh, gres, arg, pipeVars>>

NextMesh == CallTrimRim \/ CallSeparateFaces

SpecMesh == InitMesh /\ [][NextMesh]_vars

(***************************************************************************)
(* Claims on trimRim and separateFaces (checked under SpecMesh)            *)
(***************************************************************************)
\* the corner positions of face f (0-based) of a mesh
Triangle(m, f) == [v \in 1..3 |-> PosAt(m.positions, FaceOf(m.indices, f)[v])]

\* the corner positions of the faces of a mesh, in face order
Triangles(m) == [k \in 1..m.faceCount |-> Triangle(m, k - 1)]

\* the corner positions of the faces of m listed in the set faces, in face order
TrianglesOfFaces(m, faces) ==
  LET chosen == FilterIn([k \in 1..m.faceCount |-> k - 1], faces)
  IN  [k \in 1..Len(chosen) |-> Triangle(m, chosen[k])]

\* the height of vertex v of m along the axis, above the centroid
VertexHeight(m, axis, v) == VDot(FromCentroid(Centroid(m.positions), PosAt(m.positions, v)), axis)

\* the faces of m with all three vertices strictly above height t
FacesAbove(m, axis, t) ==
  {f \in 0..(m.faceCount - 1) :
     \A v \in 1..3 : VertexHeight(m, axis, FaceOf(m.indices, f)[v]) > t}

\* C13: there is a threshold among the vertex heights with at least percent%
\* of the vertices at or below it such that trimRim keeps exactly the faces
\* with all three vertices strictly above it, in their order, and puts every
\* other face in rimMesh; the two face counts add up to the input's.
C13_TrimPartition ==
  (ret # Null /\ Val(arg).op = "trimRim") =>
    LET a == Val(arg)
        m == a.mesh
        r == Val(ret)
        V == 0..(m.vertexCount - 1)
    IN  /\ r.mesh.faceCount + r.rimMesh.faceCount = m.faceCount
        /\ \E x \in V :
             LET t == VertexHeight(m, a.cupAxis, x)
             IN  /\ 100 * Cardinality({v \in V : VertexHeight(m, a.cupAxis, v) <= t})
                      >= a.percent * m.vertexCount
                 /\ r.mesh.faceCount = Cardinality(FacesAbove(m, a.cupAxis, t))
                 /\ Triangles(r.mesh) = TrianglesOfFaces(m, FacesAbove(m, a.cupAxis, t))
                 /\ Triangles(r.rimMesh) =
                      TrianglesOfFaces(m, (0..(m.faceCount - 1)) \ FacesAbove(m, a.cupAxis, t))

\* C13 witness: 30% trimmed from the cup along its axis: the rim ring and the
\* apex of the back lie at or below the threshold, and faces are on both sides
C13_Witness ==
  /\ ret # Null
  /\ Val(arg).op = "trimRim"
  /\ Val(arg).mesh = MeshCup
  /\ Val(arg).percent = 30
  /\ Val(arg).cupAxis = <<0, 0, -1000>>
  /\ Val(ret).mesh.faceCount > 0
  /\ Val(ret).rimMesh.faceCount > 0

\* C14: trimRim with percent = 0 keeps every face: the trimmed mesh has the
\* face count and the vertex set of the input, and rimMesh is empty.
C14_ZeroPercentKeepsAll ==
  (ret # Null /\ Val(arg).op = "trimRim" /\ Val(arg).percent = 0) =>
    /\ Val(ret).mesh.faceCount = Val(arg).mesh.faceCount
    /\ SeqToSet(Val(ret).mesh.positions) = SeqToSet(Val(arg).mesh.positions)
    /\ Val(ret).rimMesh.faceCount = 0
    /\ Val(ret).rimMesh.vertexCount = 0

\* the meshes a result of separateFaces or trimRim holds
OutputMeshes(op, r) ==
  IF op = "separateFaces" THEN {r.inner, r.outer} ELSE {r.mesh, r.rimMesh}

\* the faces of m an output mesh o was built from: those whose corner
\* positions make up a triangle of o (the inputs have distinct triangles)
OriginFaces(m, o) ==
  {f \in 0..(m.faceCount - 1) : \E k \in 1..o.faceCount : Triangles(o)[k] = Triangle(m, f)}

\* the vertices of m used by the faces in the set faces
VerticesOfFaces(m, faces) == UNION {SeqToSet(FaceOf(m.indices, f)) : f \in faces}

\* o is a well-formed mesh welded from faces of m
WeldedFrom(m, o) ==
  /\ Len(o.positions) = o.vertexCount
  /\ 3 * o.faceCount = Len(o.indices)
  /\ \A k \in 1..Len(o.indices) : o.indices[k] \in 0..(o.vertexCount - 1)
  /\ \A v \in 0..(o.vertexCount - 1) : \E k \in 1..Len(o.indices) : o.indices[k] = v
  /\ Triangles(o) = TrianglesOfFaces(m, OriginFaces(m, o))
  /\ \A v \in VerticesOfFaces(m, OriginFaces(m, o)) :
       Cardinality({k \in 1..Len(o.positions) : o.positions[k] = PosAt(m.positions, v)}) = 1
  /\ o.vertexCount = Cardinality(VerticesOfFaces(m, OriginFaces(m, o)))

\* C15: every mesh returned by separateFaces and trimRim for a well-formed
\* input has its indices below vertexCount, faceCount = indices.length / 3,
\* every output vertex used by a face, each input vertex of the selected faces
\* exactly once among its vertices, and each triangle at the positions of the
\* input face it was built from.
C15_OutputsWellFormed ==
  ret # Null =>
    /\ \A o \in OutputMeshes(Val(arg).op, Val(ret)) : WeldedFrom(Val(arg).mesh, o)
    /\ \A f \in 0..(Val(arg).mesh.faceCount - 1) :
         \E o \in OutputMeshes(Val(arg).op, Val(ret)) : f \in OriginFaces(Val(arg).mesh, o)

\* C15 witness: separateFaces splits the worn cup into two non-empty meshes
\* whose faces share vertices
C15_Witness ==
  /\ ret # Null
  /\ Val(arg).op = "separateFaces"
  /\ Val(arg).mesh = MeshWorn
  /\ Val(ret).inner.faceCount > 0
  /\ Val(ret).outer.faceCount > 0
  /\ Val(ret).inner.vertexCount < 3 * Val(ret).inner.faceCount
  /\ Val(ret).outer.vertexCount < 3 * Val(ret).outer.faceCount

(***************************************************************************)
(* SpecCluster: clusterAnomalies on a point set in two orders              *)
(***************************************************************************)
\* an anomaly point on the x axis (tenths of a millimetre), of vertex idx
AnomalyAt(x, deviation, idx) ==
  [position |-> <<x, 0, 0>>, deviation |-> deviation,
   type |-> IF deviation > 0 THEN "bump" ELSE "dip",
   geodesicAngle |-> 0, arcLength |-> x, derivative |-> 0, vertexIndex |-> idx]

\* two groups of three dips 0.5 mm from a dip between them
PointsBridge ==
  <<AnomalyAt(3, -8, 0), AnomalyAt(4, -9, 1), AnomalyAt(5, -7, 2), AnomalyAt(10, -6, 3),
    AnomalyAt(15, -7, 4), AnomalyAt(16, -12, 5), AnomalyAt(17, -8, 6)>>

\* a group of bumps, two deep dips without neighbours and a shallow one
PointsMixed ==
  <<AnomalyAt(0, 3, 0), AnomalyAt(1, 8, 1), AnomalyAt(2, 4, 2),
    AnomalyAt(20, -9, 3), AnomalyAt(30, -2, 4), AnomalyAt(40, -7, 5)>>

PointsBumps == <<AnomalyAt(0, 3, 0), AnomalyAt(1, 8, 1), AnomalyAt(2, 4, 2)>>

PointLists == {PointsBridge, PointsMixed, PointsBumps, <<>>}

\* the values of minPoints examined: the default and one more
MinPointsExamined == {MinPoints, MinPoints + 1}

\* the orderings of a list of points
Orderings(points) ==
  {[k \in 1..Len(points) |-> points[perm[k]]] : perm \in Permutations(1..Len(points))}

\* a point list, one of its orderings, eps and minPoints
InitCluster ==
  /\ \E points \in PointLists, minPoints \in MinPointsExamined :
       \E reordered \in Orderings(points) :
         arg = Some([points |-> points, reordered |-> reordered,
                     eps |-> Eps, minPoints |-> minPoints])
  /\ ret = Null
  /\ Quiet

\* clusterAnomalies applied to the points as listed and as reordered
CallClusterAnomalies ==
  /\ ret = Null
  /\ \E a \in {Val(arg)} :
       ret' = Some([clusters  |-> ClusterAnomalies(a.points, a.eps, a.minPoints),
                    reordered |-> ClusterAnomalies(a.reordered, a.eps, a.minPoints)])
  /\ UNCHANGED <<gmesh, gres, arg, pipeVars>>

NextCluster == CallClusterAnomalies

SpecCluster == InitCluster /\ [][NextCluster]_vars

(***************************************************************************)
(* Claims on clusterAnomalies (checked under SpecCluster)                  *)
(***************************************************************************)
\* the member vertices of a cluster
Members(cluster) == {cluster.points[k].vertexIndex : k \in 1..Len(cluster.points)}

\* the family of membership sets of a list of clusters
Partition(clusters) == {Members(clusters[k]) : k \in 1..Len(clusters)}

\* C16: clusterAnomalies returns the same family of cluster membership sets
\* for every two orderings of a point set, with eps and minPoints fixed.
C16_OrderInvariant ==
  ret # Null => Partition(Val(ret).clusters) = Partition(Val(ret).reordered)

\* C17: every cluster of clusterAnomalies is non-empty with all its points of
\* the cluster's type; the ids are 0..k-1 in list order, and every bump
\* cluster comes with a smaller id than every dip cluster.
C17_TypesAndIds ==
  ret # Null =>
    \A clusters \in {Val(ret).clusters, Val(ret).reordered} :
      /\ \A k \in 1..Len(clusters) :
           /\ clusters[k].points # <<>>
           /\ \A i \in 1..Len(clusters[k].points) : clusters[k].points[i].type = clusters[k].type
           /\ clusters[k].id = k - 1
      /\ \A j, k \in 1..Len(clusters) :
           (clusters[j].type = "bump" /\ clusters[k].type = "dip") => clusters[j].id < clusters[k].id

\* C17 witness: a bump cluster of several points followed by two dip clusters
C17_Witness ==
  /\ ret # Null
  /\ Len(Val(ret).clusters) = 3
  /\ Val(ret).clusters[1].type = "bump"
  /\ Len(Val(ret).clusters[1].points) = 3
  /\ Val(ret).clusters[2].type = "dip"
  /\ Val(ret).clusters[3].type = "dip"

(***************************************************************************)
(* SpecWearZone: findPrimaryWearZone on lists of clusters                  *)
(***************************************************************************)
\* the clusters the lists are made of: two bumps and three dips, two of the
\* dips equally deep
ClusterPool ==
  {BuildCluster(0, "bump", <<AnomalyAt(0, 3, 0), AnomalyAt(1, 8, 1)>>),
   BuildCluster(1, "dip", <<AnomalyAt(10, -9, 2), AnomalyAt(11, -4, 3)>>),
   BuildCluster(2, "dip", <<AnomalyAt(20, -9, 4)>>),
   BuildCluster(3, "dip", <<AnomalyAt(30, -4, 5)>>),
   BuildCluster(4, "bump", <<AnomalyAt(40, 6, 6)>>)}

\* the longest list examined
MaxClusters == 4

\* the lists of up to MaxClusters different clusters of the pool
ClusterLists ==
  UNION {{s \in [1..n -> ClusterPool] : \A i, j \in 1..n : s[i] = s[j] => i = j} :
         n \in 0..MaxClusters}

InitWearZone ==
  /\ arg \in {Some([clusters |-> clusters]) : clusters \in ClusterLists}
  /\ ret = Null
  /\ Quiet

\* findPrimaryWearZone(clusters): filter copies the dip clusters and sort
\* orders the copy, clusters is read only
CallFindPrimaryWearZone ==
  /\ ret = Null
  /\ ret' = Some([zone |-> FindPrimaryWearZone(Val(arg).clusters)])
  /\ UNCHANGED <<gmesh, gres, arg, pipeVars>>

NextWearZone == CallFindPrimaryWearZone

SpecWearZone == InitWearZone /\ [][NextWearZone]_vars

(***************************************************************************)
(* Claims on findPrimaryWearZone (checked under SpecWearZone)              *)
(***************************************************************************)
\* the positions of the dip clusters of a list
DipsOf(clusters) == {k \in 1..Len(clusters) : clusters[k].type = "dip"}

\* what findPrimaryWearZone returned for the list: null iff the list holds no
\* dip cluster, otherwise a dip cluster of the list whose minDeviation is at
\* most that of every dip cluster of the list
DeepestDipReturned ==
  ret # Null =>
    LET clusters == Val(arg).clusters
        zone     == Val(ret).zone
    IN  /\ zone = Null <=> DipsOf(clusters) = {}
        /\ zone # Null =>
             \E k \in DipsOf(clusters) :
               /\ clusters[k].id = Val(zone)
               /\ \A j \in DipsOf(clusters) : clusters[k].minDeviation <= clusters[j].minDeviation

\* C18: findPrimaryWearZone returns null iff the list holds no dip cluster,
\* otherwise a dip cluster with the least minDeviation of the dip clusters,
\* and across the call the list keeps its clusters and their order.
C18_DeepestDip == []DeepestDipReturned /\ [][arg' = arg]_vars

\* C18 witness: the shallow dip listed first, a deeper one chosen
C18_Witness ==
  /\ ret # Null
  /\ Len(Val(arg).clusters) = 3
  /\ Val(arg).clusters[1].id = 3
  /\ Val(arg).clusters[2].type = "bump"
  /\ Val(arg).clusters[3].id = 1
  /\ Val(ret).zone = Some(1)

(***************************************************************************)
(* Claims on the cluster volumes (checked under Spec)                      *)
(***************************************************************************)
\* the clusters of a results object
ClustersOf(res) == res.bumpClusters \o res.dipClusters

\* C19: over every sequence of pipeline operations, the volume of no cluster
\* is assigned by computeDefectVolumes more than once.
C19_VolumeWrittenOnce ==
  \A i \in 1..Len(objs) : ClustersOf(objs[i]) # <<>> => volumeWrites[i] <= 1

(***************************************************************************)
(* SpecBand: computeGeodesics from the sorted band of one meridian on      *)
(***************************************************************************)
\* the numbers of vertices in the band: short bands, and bands around the
\* multiples of maxPoints
BandLengths == (0..20) \cup {499, 500, 501, 999, 1000, 1001, 1499, 1500}

\* the distance from the pole grows by this much from one vertex of the band
\* to the next, in micrometres (0: all at one distance)
BandSpacings == {0, 1, 3}

\* the position of vertex i of the band's mesh, on and near a sphere of
\* radius 10 around the origin
BandPosition(i) == <<10 + (i % 2), i % 3, (i \div 3) % 2>>

\* bandVertices after the sort, for n vertices spaced by spacing
SortedBand(n, spacing) == [k \in 1..n |-> [idx |-> k - 1, dist |-> (k - 1) * spacing]]

InitBand ==
  /\ \E n \in BandLengths, spacing \in BandSpacings :
       arg = Some([positions |-> [k \in 1..n |-> BandPosition(k - 1)],
                   band |-> SortedBand(n, spacing)])
  /\ ret = Null
  /\ Quiet

\* the meridian g = 0 of computeGeodesics(..., geodesicCount = 1) for the band
CallMeridianFromBand ==
  /\ ret = Null
  /\ \E a \in {Val(arg)} :
       ret' = Some(MeridianFromBand(a.positions, a.band, 10000, <<0, 0, 0>>, 0, 1))
  /\ UNCHANGED <<gmesh, gres, arg, pipeVars>>

NextBand == CallMeridianFromBand

SpecBand == InitBand /\ [][NextBand]_vars

(***************************************************************************)
(* Claims on the sampling of a meridian (checked under SpecBand)           *)
(***************************************************************************)
\* C20: a meridian has at most 500 points whatever the number of vertices in
\* its band, its points come in non-decreasing arc length, and totalLength is
\* the arc length of its last point.
C20_MeridianBounded ==
  ret # Null =>
    LET points == Val(ret).points
    IN  /\ Len(points) <= MaxPoints
        /\ \A k \in 1..(Len(points) - 1) : points[k].arcLength <= points[k + 1].arcLength
        /\ points # <<>> => Val(ret).totalLength = points[Len(points)].arcLength

(***************************************************************************)
(* Claims on the noise points of dbscan (checked under SpecCluster)        *)
(***************************************************************************)
\* the points of the list p is clustered with (its type) within eps of p
NearSameType(points, p, eps) ==
  {q \in SeqToSet(points) : q.type = p.type /\ Within(p.position, q.position, eps)}

\* p has minPoints points of its type within eps, itself included
IsCore(points, p, eps, minPoints) == Cardinality(NearSameType(points, p, eps)) >= minPoints

\* p is left as noise: not a core point and not within eps of one
IsNoise(points, p, eps, minPoints) ==
  /\ ~IsCore(points, p, eps, minPoints)
  /\ \A q \in NearSameType(points, p, eps) : ~IsCore(points, q, eps, minPoints)

\* the positions in the list of the clusters that hold point p
ClustersHolding(clusters, p) ==
  {k \in 1..Len(clusters) : \E i \in 1..Len(clusters[k].points) : clusters[k].points[i] = p}

\* C21: every point with |deviation| > 5 belongs to exactly one returned
\* cluster, on its own when it was left as noise; a point left as noise with
\* |deviation| <= 5 belongs to no cluster.
C21_SignificantNoiseKept ==
  ret # Null =>
    \A clusters \in {Val(ret).clusters, Val(ret).reordered} :
      \A p \in SeqToSet(Val(arg).points) :
        LET noise == IsNoise(Val(arg).points, p, Val(arg).eps, Val(arg).minPoints)
        IN  /\ Abs(p.deviation) > SignificantDeviation =>
                 /\ Cardinality(ClustersHolding(clusters, p)) = 1
                 /\ noise => \A k \in ClustersHolding(clusters, p) : clusters[k].points = <<p>>
            /\ (noise /\ Abs(p.deviation) <= SignificantDeviation) =>
                 ClustersHolding(clusters, p) = {}

\* C21 witness: with minPoints = 4 every point of the mixed list is noise; the
\* bump of 8 and the dips of -9 and -7 are kept on their own, the rest dropped
C21_Witness ==
  /\ ret # Null
  /\ Val(arg).points = PointsMixed
  /\ Val(arg).minPoints = MinPoints + 1
  /\ Len(Val(ret).clusters) = 3
  /\ \A k \in 1..3 : Len(Val(ret).clusters[k].points) = 1
  /\ Val(ret).clusters[1].points[1].deviation = 8

\* C29: every point is in at most one cluster: no point occurs twice in the
\* member list of a cluster, and the member lists of two clusters share no
\* point.
C29_MembersDisjoint ==
  ret # Null =>
    \A clusters \in {Val(ret).clusters, Val(ret).reordered} :
      /\ \A k \in 1..Len(clusters) :
           \A i, j \in 1..Len(clusters[k].points) :
             clusters[k].points[i].vertexIndex = clusters[k].points[j].vertexIndex => i = j
      /\ \A j, k \in 1..Len(clusters) :
           j # k => Members(clusters[j]) \cap Members(clusters[k]) = {}

\* C29 witness: two density clusters next to each other, with the point
\* between them in one of them
C29_Witness ==
  /\ ret # Null
  /\ Val(arg).points = PointsBridge
  /\ Val(arg).minPoints = MinPoints + 1
  /\ Len(Val(ret).clusters) = 2
  /\ Len(Val(ret).clusters[1].points) + Len(Val(ret).clusters[2].points) = 7

(***************************************************************************)
(* SpecDeviations: analyzeDeviations on overlapping meridians              *)
(***************************************************************************)
\* the vertices of the meshes whose meridians are analysed
MaxVertices == 3

\* the deviations a vertex can have, in micrometres
Deviations == {-3, 0, 1, 2}

\* the vertices along a meridian: meridians overlap and revisit vertices
MeridianWalks == {<<>>, <<0>>, <<0, 1>>, <<1, 2>>, <<2, 0, 1>>}

\* the thresholds examined, in micrometres
DeviationThresholds == {1, 2}

\* the point of computeGeodesics for vertex v, whose deviation is dev[v]
SampledPoint(v, dev) ==
  [vertexIndex |-> v, position |-> BandPosition(v), arcLength |-> 100 * v,
   deviation |-> dev[v], derivative |-> 0, secondDerivative |-> 0]

\* the geodesics made of the walks, the g-th at angle 360 * (g - 1) / count
GeodesicsOf(walks, dev) ==
  [g \in 1..Len(walks) |->
     [angle  |-> [num |-> (g - 1) * 360, den |-> Len(walks)],
      points |-> [k \in 1..Len(walks[g]) |-> SampledPoint(walks[g][k], dev)]]]

InitDeviations ==
  /\ \E dev \in [0..(MaxVertices - 1) -> Deviations], first \in MeridianWalks,
        second \in MeridianWalks, thresholdMicrons \in DeviationThresholds :
       arg = Some([positions |-> [k \in 1..MaxVertices |-> BandPosition(k - 1)],
                   geodesics |-> GeodesicsOf(<<first, second>>, dev),
                   thresholdMicrons |-> thresholdMicrons])
  /\ ret = Null
  /\ Quiet

CallAnalyzeDeviations ==
  /\ ret = Null
  /\ \E a \in {Val(arg)} :
       ret' = Some(AnalyzeDeviations(a.positions, MaxVertices, a.geodesics,
                                     [center |-> <<0, 0, 0>>, radius |-> 10000],
                                     a.thresholdMicrons))
  /\ UNCHANGED <<gmesh, gres, arg, pipeVars>>

NextDeviations == CallAnalyzeDeviations

SpecDeviations == InitDeviations /\ [][NextDeviations]_vars

(***************************************************************************)
(* Claims on analyzeDeviations (checked under SpecDeviations)              *)
(***************************************************************************)
\* the places <<g, k>> of the sampled points, in the order of the walk
Places(geodesics) ==
  Flatten([g \in 1..Len(geodesics) |-> [k \in 1..Len(geodesics[g].points) |-> <<g, k>>]])

\* the places whose point exceeds the threshold at a vertex that no earlier
\* place exceeding it has
FirstSeen(geodesics, thresholdMicrons) ==
  LET places == Places(geodesics)
      at(i)  == geodesics[places[i][1]].points[places[i][2]]
      over(i) == Abs(at(i).deviation) > thresholdMicrons
      kept   == {i \in 1..Len(places) :
                   over(i) /\ \A j \in 1..(i - 1) :
                                ~(over(j) /\ at(j).vertexIndex = at(i).vertexIndex)}
  IN  FilterIn(places, {places[i] : i \in kept})

\* C22: the anomaly points are, in walking order, the sampled points with
\* |deviation| > thresholdMicrons whose vertex no earlier point emitted: no
\* two share a vertex, each has the angle of the first geodesic its vertex
\* appears in, and is a bump iff its deviation is > 0, a dip iff it is < 0.
C22_FirstSeenWins ==
  ret # Null =>
    LET geodesics == Val(arg).geodesics
        emitted   == Val(ret).anomalyPoints
        seen      == FirstSeen(geodesics, Val(arg).thresholdMicrons)
    IN  /\ Len(emitted) = Len(seen)
        /\ \A i \in 1..Len(emitted) :
             LET point == geodesics[seen[i][1]].points[seen[i][2]]
             IN  /\ emitted[i].vertexIndex = point.vertexIndex
                 /\ emitted[i].deviation = point.deviation
                 /\ emitted[i].position = point.position
                 /\ emitted[i].arcLength = point.arcLength
                 /\ emitted[i].geodesicAngle =
                      geodesics[CHOOSE g \in 1..Len(geodesics) :
                                  /\ \E k \in 1..Len(geodesics[g].points) :
                                       geodesics[g].points[k].vertexIndex = point.vertexIndex
                                  /\ \A h \in 1..(g - 1) :
                                       \A k \in 1..Len(geodesics[h].points) :
                                         geodesics[h].points[k].vertexIndex # point.vertexIndex].angle
                 /\ emitted[i].type = "bump" <=> point.deviation > 0
                 /\ emitted[i].type = "dip" <=> point.deviation < 0
        /\ \A i, j \in 1..Len(emitted) : emitted[i].vertexIndex = emitted[j].vertexIndex => i = j

\* C22 witness: vertex 0 exceeds the threshold in both meridians and is
\* emitted once, with the angle of the first
C22_Witness ==
  /\ ret # Null
  /\ Len(Val(arg).geodesics[1].points) = 2
  /\ Len(Val(arg).geodesics[2].points) = 3
  /\ Abs(Val(arg).geodesics[1].points[1].deviation) > Val(arg).thresholdMicrons
  /\ Len(Val(ret).anomalyPoints) >= 2
  /\ Val(ret).anomalyPoints[1].vertexIndex = 0
  /\ Val(ret).anomalyPoints[1].geodesicAngle = Val(arg).geodesics[1].angle
  /\ Val(ret).anomalyPoints[1].type = "dip"

(***************************************************************************)
(* SpecVolumes: computeDefectVolumes on a cap around a reference sphere    *)
(***************************************************************************)
\* the reference sphere: centre and radius in micrometres
CapSphere == [center |-> <<0, 0, 0>>, radius |-> 300]

\* the directions of the five vertices of the cap, the apex first
CapDirections == <<<<0, 0, 1>>, <<1, 0, 0>>, <<0, 1, 0>>, <<-1, 0, 0>>, <<0, -1, 0>>>>

\* how far a vertex lies off the sphere, in tenths of a millimetre
CapOffsets == {-1, 0, 2}

\* four faces around the apex, the apex being their first or their last corner
CapIndices == <<0, 1, 2, 2, 3, 0, 3, 4, 0, 4, 1, 0>>

\* the cap whose vertex v lies off[v] off the sphere
MeshCap(off) ==
  MkMesh([v \in 1..5 |-> <<(3 + off[v]) * CapDirections[v][1],
                           (3 + off[v]) * CapDirections[v][2],
                           (3 + off[v]) * CapDirections[v][3]>>], CapIndices)

\* the thresholds examined, in micrometres
VolumeThresholds == {1, 150}

\* one meridian over all vertices of the mesh, in vertex order, with the
\* deviations from the sphere
FullMeridian(meshData, deviations) ==
  <<[angle  |-> [num |-> 0, den |-> 1],
     points |-> [k \in 1..meshData.vertexCount |->
                   [vertexIndex |-> k - 1, position |-> meshData.positions[k],
                    arcLength |-> 0, deviation |-> deviations[k], derivative |-> 0,
                    secondDerivative |-> 0]]]>>

\* the arguments stepComputeVolumes passes after stepAnalyzeDeviations for the
\* mesh and the threshold
VolumeArguments(meshData, thresholdMicrons) ==
  Bind(ComputeVertexDeviations(meshData.positions, meshData.vertexCount,
                               CapSphere.center, CapSphere.radius), LAMBDA deviations :
  Bind(AnalyzeDeviations(meshData.positions, meshData.vertexCount,
                         FullMeridian(meshData, deviations), CapSphere, thresholdMicrons),
       LAMBDA dev :
    [meshData |-> meshData, sphereFit |-> CapSphere,
     vertexDeviations |-> dev.vertexDeviations,
     clusters |-> ClusterAnomalies(dev.anomalyPoints, Eps, MinPoints),
     thresholdMicrons |-> thresholdMicrons]))

InitVolumes ==
  /\ \E off \in [1..5 -> CapOffsets], thresholdMicrons \in VolumeThresholds :
       arg = Some(VolumeArguments(MeshCap(off), thresholdMicrons))
  /\ ret = Null
  /\ Quiet

CallComputeDefectVolumes ==
  /\ ret = Null
  /\ \E a \in {Val(arg)} :
       ret' = Some(ComputeDefectVolumes(a.meshData, a.sphereFit, a.vertexDeviations,
                                        a.clusters, a.thresholdMicrons))
  /\ UNCHANGED <<gmesh, gres, arg, pipeVars>>

NextVolumes == CallComputeDefectVolumes

SpecVolumes == InitVolumes /\ [][NextVolumes]_vars

(***************************************************************************)
(* Claims on computeDefectVolumes (checked under SpecVolumes)              *)
(***************************************************************************)
\* three times the mean deviation of the vertices of face f
DeviationSum(a, f) ==
  LET tri == FaceOf(a.meshData.indices, f)
  IN  a.vertexDeviations[tri[1] + 1] + a.vertexDeviations[tri[2] + 1]
        + a.vertexDeviations[tri[3] + 1]

\* the faces whose mean deviation exceeds the threshold in absolute value
CountedFaces(a) ==
  {f \in 0..(a.meshData.faceCount - 1) : Abs(DeviationSum(a, f)) > 3 * a.thresholdMicrons}

\* the absolute volume between face f and the sphere
AbsPrism(a, f) ==
  LET tri == FaceOf(a.meshData.indices, f)
      v   == [k \in 1..3 |-> Um(PosAt(a.meshData.positions, tri[k]))]
      sp  == [k \in 1..3 |-> ProjectOntoSphere(v[k], a.sphereFit.center, a.sphereFit.radius)]
  IN  Abs(PrismVolume(v, sp))

\* the clusters (positions in the list) with a point on the vertex
ClustersAt(a, vertex) ==
  {k \in 1..Len(a.clusters) :
     \E i \in 1..Len(a.clusters[k].points) : a.clusters[k].points[i].vertexIndex = vertex}

\* the clusters of the first corner of face f that is in a cluster
Owners(a, f) ==
  LET tri == FaceOf(a.meshData.indices, f)
  IN  IF ClustersAt(a, tri[1]) # {} THEN ClustersAt(a, tri[1])
      ELSE IF ClustersAt(a, tri[2]) # {} THEN ClustersAt(a, tri[2])
      ELSE ClustersAt(a, tri[3])

\* the sum of the absolute volumes of the faces in the set faces
RECURSIVE VolumeOfFaces(_, _)
VolumeOfFaces(a, faces) ==
  IF faces = {} THEN 0
  ELSE LET f == CHOOSE x \in faces : TRUE
       IN  AbsPrism(a, f) + VolumeOfFaces(a, faces \ {f})

C24_SignConsistent ==
  ret # Null =>
    LET a == Val(arg)
        r == Val(ret)
        ofType(type) == SumSeq([k \in 1..Len(a.clusters) |->
                          IF a.clusters[k].type = type THEN r.clusterVolumes[k] ELSE 0])
    IN  /\ ofType("dip") <= r.totalDipVolume
        /\ ofType("bump") <= r.totalBumpVolume

(***************************************************************************)
(* Claims on the face sets of separateFaces (checked under SpecMesh)       *)
(***************************************************************************)
\* the candidate faces of mesh m
CandidatesOf(m) ==
  LET c        == Centroid(m.positions)
      faceData == [k \in 1..m.faceCount |-> FaceInfo(m.positions, m.indices, c, k - 1)]
      chosen   == CandidateFaces(faceData)
  IN  {chosen[k].index : k \in 1..Len(chosen)}

\* the candidates joined to a face of the set by a chain of candidates, each
\* sharing a vertex with the next
RECURSIVE JoinedTo(_, _, _)
JoinedTo(m, cand, faces) ==
  LET more == faces \cup {g \in cand : \E f \in faces :
                            f # g /\ SeqToSet(FaceOf(m.indices, f))
                                       \cap SeqToSet(FaceOf(m.indices, g)) # {}}
  IN  IF more = faces THEN faces ELSE JoinedTo(m, cand, more)

\* the face sets the meshes of a result stand for, the inner one first
FaceSets(m, r) == <<OriginFaces(m, r.inner), OriginFaces(m, r.outer)>>

\* C25: of the two face sets of separateFaces, one (inner before the swap) is
\* a connected component of the candidate faces of the greatest size, the
\* empty set when there is no candidate; the other holds every other face.
C25_LargestComponentInner ==
  (ret # Null /\ Val(arg).op = "separateFaces") =>
    LET m     == Val(arg).mesh
        cand  == CandidatesOf(m)
        all   == 0..(m.faceCount - 1)
        sets  == FaceSets(m, Val(ret))
    IN  /\ sets[1] \cap sets[2] = {}
        /\ sets[1] \cup sets[2] = all
        /\ \E k \in 1..2 :
             /\ cand = {} => sets[k] = {}
             /\ cand # {} =>
                  /\ \E f \in cand : sets[k] = JoinedTo(m, cand, {f})
                  /\ \A g \in cand :
                       Cardinality(JoinedTo(m, cand, {g})) <= Cardinality(sets[k])

\* C25 witness: three of the four faces of the plates are candidates, in a
\* component of one face and a component of two, and the two faces are one of
\* the two meshes returned
C25_Witness ==
  /\ ret # Null
  /\ Val(arg).op = "separateFaces"
  /\ Val(arg).mesh = MeshPlates
  /\ CandidatesOf(MeshPlates) = {0, 1, 2}
  /\ JoinedTo(MeshPlates, {0, 1, 2}, {0}) = {0}
  /\ {1, 2} \in {FaceSets(MeshPlates, Val(ret))[k] : k \in 1..2}

(***************************************************************************)
(* fitSphereRobust applied to point lists                                  *)
(***************************************************************************)
\* twenty points of the circle of radius 2.5 mm around the origin in z = 0
CirclePoints ==
  <<<<25, 0, 0>>, <<24, 7, 0>>, <<20, 15, 0>>, <<15, 20, 0>>, <<7, 24, 0>>,
    <<0, 25, 0>>, <<-7, 24, 0>>, <<-15, 20, 0>>, <<-20, 15, 0>>, <<-24, 7, 0>>,
    <<-25, 0, 0>>, <<-24, -7, 0>>, <<-20, -15, 0>>, <<-15, -20, 0>>, <<-7, -24, 0>>,
    <<0, -25, 0>>, <<7, -24, 0>>, <<15, -20, 0>>, <<20, -15, 0>>, <<24, -7, 0>>>>

\* the two points of the axis of the circle at height h above and below it
Apexes(h) == IF h = 0 THEN <<>> ELSE <<<<0, 0, h>>, <<0, 0, -h>>>>

\* heights of a near pair and of a far pair of points on the axis (0: no pair)
NearHeights == 1..8
FarHeights == {0} \cup (20..24)

\* the point lists examined: the circle with one or two pairs on its axis, the
\* vertices of the meshes, and no point at all
InitFit ==
  /\ Quiet
  /\ ret = Null
  /\ \E lib0 \in MlMatrixVersions :
       \E positions \in
            {CirclePoints \o Apexes(h1) \o Apexes(h2) : h1 \in NearHeights, h2 \in FarHeights}
              \cup {m.positions : m \in {MeshCup, MeshWorn, MeshTent, MeshStrip, MeshEmpty}} :
         arg = Some([positions |-> positions, lib |-> lib0])

CallFitSphereRobust ==
  /\ arg # Null
  /\ ret = Null
  /\ ret' = Some(FitSphereRobust(Val(arg).positions, Val(arg).lib))
  /\ UNCHANGED <<gmesh, gres, arg, pipeVars>>

NextFit == CallFitSphereRobust

SpecFit == InitFit /\ [][NextFit]_vars

\* the initial fit followed by the re-fits made from it, one from the other,
\* up to the first singular weighted solve and RobustIterations at most
RECURSIVE RefitChain(_, _)
RefitChain(positions, chain) ==
  IF Len(chain) > RobustIterations THEN chain
  ELSE Bind(Refit(positions, chain[Len(chain)]), LAMBDA next :
         IF next = Null THEN chain ELSE RefitChain(positions, Append(chain, Val(next))))

\* the call returned the fit of the last re-fit before the first singular
\* weighted solve, after at most RobustIterations of them
ReturnsLastRefit ==
  Bind(FitSphere(Val(arg).positions, Val(arg).lib), LAMBDA first :
    /\ Val(ret).ok
    /\ first.ok
    /\ Bind(RefitChain(Val(arg).positions, <<first.fit>>), LAMBDA chain :
         /\ Len(chain) <= RobustIterations + 1
         /\ Val(ret).fit = chain[Len(chain)]))

InitLive ==
  /\ gmesh = Null
  /\ gres = Null
  /\ lib = "acceptsEmpty"
  /\ mesh = MeshCup
  /\ params = AnalysisParams(7, 1, 1)
  /\ pipes = <<InitialState>>
  /\ objs = <<>>
  /\ timers = <<>>
  /\ calls = 0
  /\ last = Null
  /\ published = <<>>
  /\ app = AppInit
  /\ volumeWrites = <<>>
  /\ \E cb \in Callbacks : onProgress = <<cb>>
  /\ promises = <<>>
  /\ arg = Null
  /\ ret = Null

\* the caller makes async calls only
NextLive ==
  \/ CallStepComputeGeodesicsAsync
  \/ CallRunFullAnalysis
  \/ ResumeStepGeodesics
  \/ ResumeRunFullAnalysis

\* the oldest timer, of a runFullAnalysis call or not, leaves the queue as it
\* is: what a resume step does to the queue when no progress report reaches
\* another suspended run
TimerRuns(run) == timers # <<>> /\ Head(timers).run = run /\ timers' = Tail(timers)

\* setTimeout(0): a callback that waits is run.  Weak fairness of the two
\* resume actions; each is enabled exactly when its timer is the oldest, and
\* the first disjunct states that without running the callback.
SpecLive ==
  /\ InitLive
  /\ [][NextLive]_vars
  /\ WF_timers(TimerRuns(FALSE) \/ ResumeStepGeodesics)
  /\ WF_timers(TimerRuns(TRUE) \/ ResumeRunFullAnalysis)

\* C27: every promise returned by stepComputeGeodesicsAsync or
\* runFullAnalysis is eventually resolved or rejected, whatever the progress
\* callback does.
C27_EveryCallSettles ==
  \A i \in 1..MaxCalls :
    (Len(promises) >= i) ~> (Len(promises) >= i /\ promises[i] # "pending")

(***************************************************************************)
(* SpecRerun: a full run followed by stage methods called again, the rim   *)
(* trimmed at either of two percentages                                    *)
(***************************************************************************)
RimPercents == {7, 50}

InitRerun ==
  /\ InitLive
  /\ onProgress = <<NeverRaises>>

CallStepTrimRimAt ==
  \E rimPercent \in RimPercents :
    \E r \in {StepTrimRim(pipes[1], rimPercent)} : SyncCall("stepTrimRim", 1, r, objs)

NextRerun ==
  \/ CallRunFullAnalysis
  \/ ResumeRunFullAnalysis
  \/ CallStepTrimRimAt
  \/ CallStepFitSphere
  \/ CallStepAnalyzeDeviations
  \/ CallStepComputeVolumes

SpecRerun == InitRerun /\ [][NextRerun]_vars

\* the derived fields of pipeline state s that are set are what the stages
\* compute from its working mesh
DerivedFrom(s) ==
  LET wm == Val(s.workingMesh)
  IN  /\ s.sphereFit # Null =>
           FitSphereRobust(wm.positions, lib) = [ok |-> TRUE, fit |-> Val(s.sphereFit)]
      /\ s.graph # Null =>
           /\ Val(s.graph).vertexCount = wm.vertexCount
           /\ MeshGraphBuild(wm.positions, wm.indices, wm.vertexCount).graph = Val(s.graph)
      /\ s.graph # Null => s.poleVertex < wm.vertexCount
      /\ \A g \in 1..Len(s.geodesics) : \A k \in 1..Len(s.geodesics[g].points) :
           s.geodesics[g].points[k].vertexIndex < wm.vertexCount
      /\ s.vertexDeviations # Null => Len(Val(s.vertexDeviations)) = wm.vertexCount
      /\ s.results # Null =>
           /\ objs[Val(s.results)].vertexCount = wm.vertexCount
           /\ objs[Val(s.results)].faceCount = wm.faceCount

\* C28: in every state of a pipeline, whatever stage methods were called and
\* called again, every derived field that is set was computed from the
\* current working mesh.
C28_DerivedFromWorkingMesh ==
  \A p \in 1..Len(pipes) : pipes[p].workingMesh # Null => DerivedFrom(pipes[p])

(***************************************************************************)
(* SpecApp: the user loads files and starts analyses in the App, in any    *)
(* order, while the timers of the analyses fire in between                 *)
(***************************************************************************)
\* the callback the App gives its pipelines: it sets the progress bar and the
\* status text
AppCallback == NeverRaises

\* the files the user has: STL files of three meshes, and one that loadSTL
\* rejects
Files ==
  {[parsed |-> TRUE, mesh |-> m] : m \in {MeshCup, MeshWorn, MeshEmpty}}
    \cup {[parsed |-> FALSE, mesh |-> MeshEmpty]}

InitApp ==
  /\ gmesh = Null
  /\ gres = Null
  /\ lib \in MlMatrixVersions
  /\ mesh = MeshEmpty
  /\ params \in {AnalysisParams(7, 1, 1), AnalysisParams(7, 3, 1)}
  /\ pipes = <<>>
  /\ objs = <<>>
  /\ timers = <<>>
  /\ calls = 0
  /\ last = Null
  /\ published = <<>>
  /\ app = AppInit
  /\ volumeWrites = <<>>
  /\ onProgress = <<>>
  /\ promises = <<>>
  /\ arg = Null
  /\ ret = Null

\* App.loadFile from the end of its awaits on: the fields are assigned once
\* the file is read and parsed, whatever else is going on; a file that is not
\* parsed changes nothing
AppLoadFile ==
  /\ calls < MaxCalls
  /\ calls' = calls + 1
  /\ \E file \in Files :
       app' = IF file.parsed
              THEN [app EXCEPT !.currentMeshData = Some(file.mesh), !.currentResults = Null,
                               !.pipeline = Null]
              ELSE app
  /\ UNCHANGED <<gmesh, gres, arg, ret, lib, mesh, params, pipes, objs, timers, last,
                 published, volumeWrites, onProgress, promises>>

\* App.runAnalysis up to its await: nothing when an analysis is running or no
\* mesh is loaded; else a new pipeline runs runFullAnalysis on the current
\* mesh, and a promise rejected before the await ends the analysis at once
AppRunAnalysis ==
  /\ calls < MaxCalls
  /\ calls' = calls + 1
  /\ IF app.isRunning \/ app.currentMeshData = Null
     THEN UNCHANGED <<app, pipes, onProgress, timers, promises>>
     ELSE \E r \in {RunBeginWith(AppCallback, InitialState, Val(app.currentMeshData), params, lib)} :
            /\ pipes' = Append(pipes, r.state)
            /\ onProgress' = Append(onProgress, AppCallback)
            /\ promises' = Append(promises, IF r.ok THEN "pending" ELSE "rejected")
            /\ timers' = IF r.ok
                         THEN Append(timers,
                                [pipe |-> Len(pipes) + 1, op |-> "App.runAnalysis", run |-> TRUE,
                                 mesh |-> r.timer.mesh, sphereCenter |-> r.timer.sphereCenter,
                                 cupAxis |-> r.timer.cupAxis,
                                 geodesicCount |-> r.timer.geodesicCount,
                                 pre |-> InitialState, preObjs |-> objs, events |-> r.events,
                                 stages |-> r.stages, whilePending |-> FALSE,
                                 promise |-> Len(promises) + 1])
                         ELSE timers
            /\ app' = [app EXCEPT !.pipeline = Some(Len(pipes) + 1), !.isRunning = r.ok]
  /\ UNCHANGED <<gmesh, gres, arg, ret, lib, mesh, params, objs, last, published, volumeWrites>>

\* the oldest timer fires, runFullAnalysis runs to its end and App.runAnalysis
\* resumes: the results are stored and shown, or the error is reported
AppResumeRunAnalysis ==
  /\ timers # <<>>
  /\ Head(timers).op = "App.runAnalysis"
  /\ \E t \in {Head(timers)} :
       \E r \in {RunFinishWith(onProgress[t.pipe], pipes[t.pipe], objs, t, params)} :
         IF r.raised THEN TimerLost(t, r) /\ UNCHANGED app
         ELSE
         /\ pipes' = [pipes EXCEPT ![t.pipe] = r.state]
         /\ objs' = r.objs
         /\ timers' = Tail(timers)
         /\ promises' = [promises EXCEPT ![t.promise] = IF r.ok THEN "resolved" ELSE "rejected"]
         /\ published' = IF r.ok
                         THEN Append(published, [id |-> Val(r.returned),
                                                 snapshot |-> r.objs[Val(r.returned)]])
                         ELSE published
         /\ volumeWrites' = IF r.ok THEN VolumesAssigned(volumeWrites, r.objs, Val(r.returned))
                            ELSE VolumesAssigned(volumeWrites, r.objs, 0)
         /\ app' = [app EXCEPT !.currentResults = IF r.ok THEN r.returned ELSE @,
                               !.isRunning = FALSE]
  /\ UNCHANGED <<gmesh, gres, arg, ret, lib, mesh, params, calls, last, onProgress>>

NextApp ==
  \/ AppLoadFile
  \/ AppRunAnalysis
  \/ AppResumeRunAnalysis

SpecApp == InitApp /\ [][NextApp]_vars

\* C30: whenever the App holds results, they are the results its pipeline
\* computed from the mesh the App holds, however loadFile and runAnalysis
\* interleave.
C30_ResultsOfCurrentMesh ==
  app.currentResults # Null =>
    \E p \in 1..Len(pipes) :
      /\ pipes[p].results = app.currentResults
      /\ pipes[p].originalMesh = app.currentMeshData

(***************************************************************************)
(* SpecSteps: the user loads files, starts analyses and presses the        *)
(* step-by-step buttons of the App, in any order, while the timers of the  *)
(* analyses fire in between                                                *)
(***************************************************************************)
\* a step-by-step method of the App called stage method op on pipeline p
\* (made by ensurePipeline if created), which did r; the error is caught and
\* shown in the status bar
AppSyncStep(op, p, created, r) ==
  /\ pipes' = IF created THEN Append(pipes, r.state) ELSE [pipes EXCEPT ![p] = r.state]
  /\ onProgress' = IF created THEN Append(onProgress, AppCallback) ELSE onProgress
  /\ app' = [app EXCEPT !.pipeline = Some(p)]
  /\ last' = Some(CallRecord(op, p, IF r.ok THEN "returned" ELSE "threw", r.error,
                             IF created THEN InitialState ELSE pipes[p], objs, r.events,
                             <<>>, Null, Pending(p)))

\* App.stepSeparate: nothing without a mesh; else stepSeparateFaces on the
\* App's pipeline
AppStepSeparate ==
  /\ calls < MaxCalls
  /\ calls' = calls + 1
  /\ IF app.currentMeshData = Null
     THEN UNCHANGED <<app, pipes, onProgress, last>>
     ELSE \E created \in {app.pipeline = Null} :
          \E p \in {IF created THEN Len(pipes) + 1 ELSE Val(app.pipeline)} :
          \E r \in {StepSeparateFaces(IF created THEN InitialState ELSE pipes[p],
                                      app.currentMeshData)} :
            AppSyncStep("stepSeparateFaces", p, created, r)
  /\ UNCHANGED <<gmesh, gres, arg, ret, lib, mesh, params, objs, timers, published,
                 volumeWrites, promises>>

\* App.stepTrim: stepTrimRim on the App's pipeline
AppStepTrim ==
  /\ calls < MaxCalls
  /\ calls' = calls + 1
  /\ \E created \in {app.pipeline = Null} :
     \E p \in {IF created THEN Len(pipes) + 1 ELSE Val(app.pipeline)} :
     \E r \in {StepTrimRim(IF created THEN InitialState ELSE pipes[p], params.rimTrimPercent)} :
       AppSyncStep("stepTrimRim", p, created, r)
  /\ UNCHANGED <<gmesh, gres, arg, ret, lib, mesh, params, objs, timers, published,
                 volumeWrites, promises>>

NextSteps ==
  \/ AppLoadFile
  \/ AppRunAnalysis
  \/ AppResumeRunAnalysis
  \/ AppStepSeparate
  \/ AppStepTrim

SpecSteps == InitApp /\ [][NextSteps]_vars

\* C2: a stage method called on a pipeline while a runFullAnalysis or
\* stepComputeGeodesicsAsync call of the same pipeline is suspended does not
\* run: it is refused and the state of the pipeline is as before the call.
C2_OneStageAtATime ==
  last # Null =>
    LET c == Val(last)
    IN  c.whilePending => Failed(c) /\ pipes[c.pipe] = c.pre

====
